---- MODULE Spec2Model ----
(***************************************************************************)
(* Model of the button front end of pihole_display: the per-button edge    *)
(* handling of ButtonHandler, the routing closures of main.py, the         *)
(* confirmation state machines of PiHole and SystemOps with their          *)
(* threading.Timer timeouts, and the administrative actions they start.    *)
(*                                                                         *)
(* Threads.  Thread 0 is the GPIO callback thread: it runs one button      *)
(* callback at a time, to completion (an action blocks it until its        *)
(* external process has exited).  Spec takes the callbacks as              *)
(* ButtonHandler dispatches them: a press callback, or a hold callback     *)
(* with a duration of at least the button's hold_time.  Thread t in        *)
(* 1..MaxSessions is the thread of the threading.Timer created by the t-th *)
(* arm.  The code takes no lock,                                           *)
(* so the threads interleave between any two accesses of shared state:     *)
(* every action below holds at most one access of a controller or timer    *)
(* attribute that another thread may write.                                *)
(*                                                                         *)
(* main.py calls the controllers through the names handle_button1_held,    *)
(* handle_button2_held, handle_button3_press and handle_button4_press;     *)
(* the controllers define these operations as show_menu (button 1 hold on  *)
(* SystemOps, button 2 hold on PiHole), request_reboot and                 *)
(* request_pihole_update (button 3), request_shutdown and                  *)
(* request_padd_update (button 4), as their docstrings say.  The model     *)
(* binds each call to that method.                                         *)
(***************************************************************************)
EXTENDS Naturals, FiniteSets, Sequences, TLC

\* Number of arm attempts (sessions) explored; each creates one Timer.
MaxSessions == 2
\* Longest measured hold duration, in ticks.
MaxHold == 3
\* Last reading of the clock in ButtonSpec, in ticks (the first is 1).
MaxClock == 4
\* Events counted per press/release cycle in ButtonSpec (the count saturates).
MaxEvents == 2

\* Hold thresholds, in ticks (config.buttons[b]['hold_time']).
SYSTEM_CONTROL_HOLD == 2
UPDATE_SELECT_HOLD == 3

Ctrl == {"pihole", "system"}
Threads == 0 .. MaxSessions
TimerIds == 1 .. MaxSessions
Durations == 1 .. MaxHold
Actions == {"update_pihole", "update_padd", "reboot_system", "shutdown_system"}
PiholeActions == {"update_pihole", "update_padd"}

\* brightness_levels of the configuration, in tenths (validated: at least two
\* levels, each in 0..10, in descending order).
brightness_levels == <<10, 5>>

VARIABLES
    waiting,      \* [Ctrl -> BOOLEAN]   _waiting_for_confirmation
    timer,        \* [Ctrl -> 0..MaxSessions]  _confirmation_timer (0 = None)
    pc,           \* [Threads -> STRING]  position of each thread
    ctx,          \* [Threads -> record]  controller / continuation of the call
    frame,        \* the button callback in progress on thread 0
    cip,          \* cancellation_in_progress of main()
    window,       \* tmux window shown: "padd" or "control"
    backlight,    \* [step, level, prev]: current_step, PWM level, _previous_brightness
    alive,        \* external processes that have been spawned and not exited
    nsess,        \* number of arms so far
    sess,         \* [Ctrl -> 0..MaxSessions]  session that last armed the controller
    reverted,     \* switch_to_padd has been called since the last arm
    prearm,       \* [step, level] of the backlight immediately before the last arm
    btn,          \* one ButtonHandler: its registration, state and last event
    mainthread,   \* the main thread: its position in ButtonManager.cleanup
    buttons,      \* [button -> ButtonHandler]: two handlers side by side
    proc,         \* one call of _run_process_command or of update_system
    light,        \* one DisplayBacklight object: its construction and its steps
    twin,         \* the two controllers fed the same events, one whole call at a time
    ftl,          \* one run of the finally block of update_pihole
    conf          \* the Config class: its instance, what it loaded, the file on disk

vars == <<waiting, timer, pc, ctx, frame, cip, window, backlight, alive,
          nsess, sess, reverted, prearm, btn, mainthread, buttons, proc, light, twin, ftl, conf>>

NoCtx == [c |-> "none", after |-> "none", act |-> "none", s |-> 0]
NoFrame == [h |-> "none", d |-> 0, entry |-> {}, failed |-> FALSE,
            armedAtConfirm |-> TRUE, pendingAtConfirm |-> FALSE,
     exit |-> "none"]

Armed == {c \in Ctrl : waiting[c]}

\* Spec does not look inside a ButtonHandler (ButtonSpec does).
NoBtn == [reg |-> "none"]
\* Only TwoButtonSpec follows two handlers at once.
NoButtons == <<>>
\* Only CommandSpec follows a call of _run_process_command.
NoProc == [mode |-> "none"]

\* Only ConfigSpec follows the constructions of Config.
NoConf == [mode |-> "none"]

\* Only FtlSpec follows the FTL recovery wait of update_pihole.
NoFtl == [mode |-> "none"]

\* Only TwinSpec feeds both controllers the same events.
NoTwin == [mode |-> "none"]

\* Only BacklightSpec follows the construction of a DisplayBacklight.
NoLight == [mode |-> "none"]

\* ButtonConfig.hold_time of the two buttons with a hold callback.
hold_time(b) == IF b = 1 THEN SYSTEM_CONTROL_HOLD ELSE UPDATE_SELECT_HOLD

\* The main thread waits in signal.pause(): no button handle is closed, the
\* backlight is not released, cleanup has not been called.
NoCleanup == [pc |-> "run", k |-> 0, c |-> "none", closed |-> {},
              released |-> FALSE, calls |-> 0]

\* The controllers, the display and the threads after construction.
ControllersInit ==
    /\ mainthread = NoCleanup
    /\ conf = NoConf
    /\ ftl = NoFtl
    /\ twin = NoTwin
    /\ light = NoLight
    /\ proc = NoProc
    /\ waiting = [c \in Ctrl |-> FALSE]
    /\ timer = [c \in Ctrl |-> 0]
    /\ pc = [th \in Threads |-> IF th = 0 THEN "idle" ELSE "unborn"]
    /\ ctx = [th \in Threads |-> NoCtx]
    /\ frame = NoFrame
    /\ cip = FALSE
    /\ window = "padd"
    /\ backlight = [step |-> 0, level |-> brightness_levels[1], prev |-> 10]
    /\ alive = {}
    /\ nsess = 0
    /\ sess = [c \in Ctrl |-> 0]
    /\ reverted = TRUE
    /\ prearm = [step |-> 0, level |-> brightness_levels[1]]

Init ==
    /\ ControllersInit
    /\ btn = NoBtn
    /\ buttons = NoButtons

----------------------------------------------------------------------------
\* Thread bookkeeping.

Goto(th, p) == pc' = [pc EXCEPT ![th] = p]

\* The call in progress on thread th returns normally to the thread's top.
ReturnPc(th) == IF th = 0 THEN "ret" ELSE "done"
\* An exception leaves the call in progress on thread th.
RaisePc(th) == IF th = 0 THEN "exc" ELSE "done"

\* Timer.cancel(): a timer that has not fired yet never runs its function.
CancelTimer(p, t) ==
    [p EXCEPT ![t] = IF p[t] \in {"created", "pending"} THEN "done" ELSE p[t]]

\* The context of thread th once its call has ended: a finished timer thread
\* keeps nothing of the session it acted on.
Left(th) == IF th = 0 THEN ctx ELSE [ctx EXCEPT ![th].s = 0]

Enter(h, d) ==
    [h |-> h, d |-> d, entry |-> Armed, failed |-> FALSE,
     armedAtConfirm |-> TRUE, pendingAtConfirm |-> FALSE,
     exit |-> "none"]

CtrlVars == <<waiting, timer>>
DispVars == <<window, backlight>>
GhostVars == <<nsess, sess, reverted, prearm>>

----------------------------------------------------------------------------
\* DisplayBacklight.step_brightness
step_brightness(bl) ==
    LET n == (bl.step + 1) % Len(brightness_levels)
    IN  [bl EXCEPT !.step = n, !.level = brightness_levels[n + 1]]

\* The index switch_to_padd gives current_step: the first level equal to
\* _previous_brightness, or the step unchanged when there is none.
restored_step(bl) ==
    IF \E i \in 1 .. Len(brightness_levels) : brightness_levels[i] = bl.prev
    THEN (CHOOSE i \in 1 .. Len(brightness_levels) :
             /\ brightness_levels[i] = bl.prev
             /\ \A j \in 1 .. (i - 1) : brightness_levels[j] # bl.prev) - 1
    ELSE bl.step

\* DisplayManager.switch_to_padd; r is how far the call gets: "switch_fail"
\* (tmux.switch_window raises), "backlight_fail" (set_brightness raises) or
\* "ok".  It raises DisplayError unless r = "ok".
switch_to_padd(r) ==
    /\ window' = IF r = "switch_fail" THEN window ELSE "padd"
    /\ backlight' = IF r = "ok"
                    THEN [backlight EXCEPT !.level = backlight.prev,
                                           !.step = restored_step(backlight)]
                    ELSE backlight

PaddResults == {"ok", "switch_fail", "backlight_fail"}

\* DisplayManager.show_pihole_menu / show_system_menu; r is how far the call
\* gets: "switch_fail" (tmux.switch_window raises), "backlight_fail"
\* (set_brightness raises), "clear_fail" (_clear_screen raises) or "ok".
\* Both return False unless r = "ok".
show_menu_display(r) ==
    IF r = "switch_fail"
    THEN UNCHANGED DispVars
    ELSE /\ window' = "control"
         /\ backlight' = [backlight EXCEPT
                             !.prev = brightness_levels[backlight.step + 1],
                             !.level = IF r = "backlight_fail" THEN @ ELSE 10]

ShowResults == {"ok", "switch_fail", "backlight_fail", "clear_fail"}

----------------------------------------------------------------------------
\* main.py: the routing closures.

\* Mutant of AnyWaiting: the handler looks at the SystemOps flag only.
AnyWaiting_SystemOnly == waiting["system"]

\* manager.pihole._waiting_for_confirmation or
\* manager.system._waiting_for_confirmation
AnyWaiting == waiting["pihole"] \/ waiting["system"]

\* Mutant of InConfirmation: the handler does not look for a pending
\* confirmation.
InConfirmation_Never == FALSE

\* The guard of the cancel branch of button1_pressed, button1_held and
\* button2_pressed.
InConfirmation == AnyWaiting

\* Mutant of MayArm: the arm request looks at the other button's controller
\* only through the flag it is about to set.
MayArm_OwnFlagOnly == ~waiting["pihole"]

\* The guard of an arm request in button1_held / button2_held.
MayArm == ~waiting["system"] /\ ~waiting["pihole"]

\* Hold durations ButtonHandler._on_release hands to the hold callback of
\* button b: those of at least the button's hold_time.
HoldDurations(b) == {d \in Durations : d >= hold_time(b)}

\* button1_pressed
button1_pressed ==
    /\ pc[0] = "idle"
    /\ frame' = Enter("button1_pressed", 0)
    /\ UNCHANGED <<CtrlVars, ctx, cip, window, alive, GhostVars, btn, mainthread, buttons, proc, light, twin, ftl, conf>>
    /\ IF InConfirmation
       THEN /\ Goto(0, "cancel_confirmation")
            /\ UNCHANGED backlight
       ELSE /\ backlight' = step_brightness(backlight)
            /\ Goto(0, "ret")

\* button1_held
button1_held(d) ==
    /\ pc[0] = "idle"
    /\ (~InConfirmation /\ MayArm) => nsess < MaxSessions
    /\ frame' = Enter("button1_held", d)
    /\ ctx' = [ctx EXCEPT ![0] = [NoCtx EXCEPT !.c = "system"]]
    /\ UNCHANGED <<CtrlVars, cip, DispVars, alive, GhostVars, btn, mainthread, buttons, proc, light, twin, ftl, conf>>
    /\ IF InConfirmation
       THEN Goto(0, "cancel_confirmation")
       ELSE IF MayArm THEN Goto(0, "show_menu") ELSE Goto(0, "ret")

\* button2_pressed
button2_pressed ==
    /\ pc[0] = "idle"
    /\ frame' = Enter("button2_pressed", 0)
    /\ UNCHANGED <<CtrlVars, ctx, DispVars, alive, GhostVars, btn, mainthread, buttons, proc, light, twin, ftl, conf>>
    /\ IF InConfirmation
       THEN /\ cip' = TRUE
            /\ Goto(0, "cancel_confirmation")
       ELSE /\ Goto(0, "ret")
            /\ UNCHANGED cip

\* button2_held
button2_held(d) ==
    /\ pc[0] = "idle"
    /\ (~cip /\ MayArm) => nsess < MaxSessions
    /\ frame' = Enter("button2_held", d)
    /\ ctx' = [ctx EXCEPT ![0] = [NoCtx EXCEPT !.c = "pihole"]]
    /\ UNCHANGED <<CtrlVars, DispVars, alive, GhostVars, btn, mainthread, buttons, proc, light, twin, ftl, conf>>
    /\ IF cip
       THEN /\ cip' = FALSE
            /\ Goto(0, "ret")
       ELSE /\ UNCHANGED cip
            /\ IF MayArm THEN Goto(0, "show_menu") ELSE Goto(0, "ret")

\* The action a confirming press of button b selects on controller c
\* (main.py lines 82-85 and 89-92).
Option(b, c) ==
    IF c = "system"
    THEN (IF b = 3 THEN "reboot_system" ELSE "shutdown_system")
    ELSE (IF b = 3 THEN "update_pihole" ELSE "update_padd")

\* button3_pressed (b = 3) / button4_pressed (b = 4)
option_pressed(b) ==
    /\ pc[0] = "idle"
    /\ frame' = Enter(IF b = 3 THEN "button3_pressed" ELSE "button4_pressed", 0)
    /\ UNCHANGED <<CtrlVars, cip, DispVars, alive, GhostVars, btn, mainthread, buttons, proc, light, twin, ftl, conf>>
    /\ IF waiting["system"]
       THEN /\ ctx' = [ctx EXCEPT ![0] = [NoCtx EXCEPT !.c = "system", !.act = Option(b, "system")]]
            /\ Goto(0, "request")
       ELSE IF waiting["pihole"]
       THEN /\ ctx' = [ctx EXCEPT ![0] = [NoCtx EXCEPT !.c = "pihole", !.act = Option(b, "pihole")]]
            /\ Goto(0, "request")
       ELSE /\ ctx' = ctx
            /\ Goto(0, "ret")

\* ButtonManager.cancel_confirmation
cancel_confirmation ==
    /\ pc[0] = "cancel_confirmation"
    /\ UNCHANGED <<CtrlVars, frame, cip, DispVars, alive, GhostVars, btn, mainthread, buttons, proc, light, twin, ftl, conf>>
    /\ IF waiting["pihole"]
       THEN /\ ctx' = [ctx EXCEPT ![0] = [NoCtx EXCEPT !.c = "pihole", !.after = "cancel"]]
            /\ Goto(0, "cancel")
       ELSE IF waiting["system"]
       THEN /\ ctx' = [ctx EXCEPT ![0] = [NoCtx EXCEPT !.c = "system", !.after = "cancel"]]
            /\ Goto(0, "cancel")
       ELSE /\ ctx' = ctx
            /\ Goto(0, "ret")

\* The callback on thread 0 returns, or ends by an exception.
HandlerEnd ==
    /\ pc[0] \in {"ret", "exc"}
    /\ Goto(0, "idle")
    /\ frame' = NoFrame
    /\ ctx' = [ctx EXCEPT ![0] = NoCtx]
    /\ UNCHANGED <<CtrlVars, cip, DispVars, alive, GhostVars, btn, mainthread, buttons, proc, light, twin, ftl, conf>>

----------------------------------------------------------------------------
\* PiHole / SystemOps: the confirmation state machine.

HoldOf(c) == IF c = "system" THEN SYSTEM_CONTROL_HOLD ELSE UPDATE_SELECT_HOLD

\* show_menu, up to the assignment of _waiting_for_confirmation.
show_menu ==
    /\ pc[0] = "show_menu"
    /\ UNCHANGED <<timer, frame, cip, DispVars, alive, btn, mainthread, buttons, proc, light, twin, ftl, conf>>
    /\ IF frame.d >= HoldOf(ctx[0].c)
       THEN /\ waiting' = [waiting EXCEPT ![ctx[0].c] = TRUE]
            /\ nsess' = nsess + 1
            /\ sess' = [sess EXCEPT ![ctx[0].c] = nsess + 1]
            /\ reverted' = FALSE
            /\ prearm' = [step |-> backlight.step, level |-> backlight.level]
            /\ ctx' = [ctx EXCEPT ![0].s = nsess + 1]
            /\ Goto(0, "start_timer")
       ELSE /\ UNCHANGED <<waiting, nsess, sess, reverted, prearm, ctx>>
            /\ Goto(0, "ret")

\* _start_confirmation_timer, lines 38-39 (177-178), one attribute read per
\* step: "if self._confirmation_timer:", then, when it was set,
\* "self._confirmation_timer.cancel()", which raises AttributeError when
\* another thread has stored None in between.
start_timer ==
    /\ pc[0] \in {"start_timer", "start_timer_cancel"}
    /\ pc' = IF pc[0] = "start_timer"
             THEN [pc EXCEPT ![0] = IF timer[ctx[0].c] # 0 THEN "start_timer_cancel"
                                    ELSE "start_timer_new"]
             ELSE IF timer[ctx[0].c] = 0
             THEN [pc EXCEPT ![0] = "exc"]
             ELSE [CancelTimer(pc, timer[ctx[0].c]) EXCEPT ![0] = "start_timer_new"]
    /\ UNCHANGED <<CtrlVars, ctx, frame, cip, DispVars, alive, GhostVars, btn, mainthread, buttons, proc, light, twin, ftl, conf>>

\* _start_confirmation_timer: self._confirmation_timer = Timer(...)
start_timer_new ==
    /\ pc[0] = "start_timer_new"
    /\ timer' = [timer EXCEPT ![ctx[0].c] = ctx[0].s]
    /\ pc' = [pc EXCEPT ![0] = "start_timer_start", ![ctx[0].s] = "created"]
    /\ ctx' = [ctx EXCEPT ![ctx[0].s] = [NoCtx EXCEPT !.c = ctx[0].c, !.after = "cancel"]]
    /\ UNCHANGED <<waiting, frame, cip, DispVars, alive, GhostVars, btn, mainthread, buttons, proc, light, twin, ftl, conf>>

\* _start_confirmation_timer: self._confirmation_timer.start()
start_timer_start ==
    /\ pc[0] = "start_timer_start"
    /\ pc' = IF timer[ctx[0].c] = 0
             THEN [pc EXCEPT ![0] = "exc"]
             ELSE [pc EXCEPT ![0] = "show",
                             ![timer[ctx[0].c]] = IF @ = "created" THEN "pending" ELSE @]
    /\ UNCHANGED <<CtrlVars, ctx, frame, cip, DispVars, alive, GhostVars, btn, mainthread, buttons, proc, light, twin, ftl, conf>>

\* What show_menu does with the result of the display request: PiHole
\* cancels when it is False, SystemOps does not look at it.
AfterShow(c, ok) == IF c = "pihole" /\ ~ok THEN "cancel" ELSE "ret"

\* show_menu: the display request and what follows it.
show ==
    /\ pc[0] = "show"
    /\ \E r \in ShowResults :
         /\ show_menu_display(r)
         /\ frame' = [frame EXCEPT !.failed = (r # "ok")]
         /\ Goto(0, AfterShow(ctx[0].c, r = "ok"))
    /\ ctx' = [ctx EXCEPT ![0].after = "cancel"]
    /\ UNCHANGED <<CtrlVars, cip, alive, GhostVars, btn, mainthread, buttons, proc, light, twin, ftl, conf>>

\* Timer thread t: the interval has elapsed, the timer was not cancelled,
\* and _handle_timeout reads the flag.
handle_timeout(t) ==
    /\ pc[t] = "pending"
    /\ Goto(t, IF waiting[ctx[t].c] THEN "cancel" ELSE "done")
    /\ UNCHANGED <<CtrlVars, ctx, frame, cip, DispVars, alive, GhostVars, btn, mainthread, buttons, proc, light, twin, ftl, conf>>

\* Mutant of CancelGuard: cancel_* does not test the flag.
CancelGuard_Unchecked(c) == TRUE

\* The guard of cancel_update / cancel_confirmation.
CancelGuard(c) == waiting[c]

\* cancel_update / cancel_confirmation: the check of the flag (and the
\* cancel message).
cancel(th) ==
    /\ pc[th] = "cancel"
    /\ UNCHANGED <<CtrlVars, frame, cip, DispVars, alive, nsess, sess, reverted, prearm, btn, mainthread, buttons, proc, light, twin, ftl, conf>>
    /\ IF CancelGuard(ctx[th].c)
       THEN /\ ctx' = [ctx EXCEPT ![th].s = sess[ctx[th].c]]
            /\ Goto(th, "clear")
       ELSE /\ ctx' = Left(th)
            /\ Goto(th, ReturnPc(th))

\* Mutant of RequestGuard: request_* trusts the check its caller made.
RequestGuard_Unchecked(c) == TRUE

\* The guard of request_pihole_update / request_padd_update / request_reboot
\* / request_shutdown.
RequestGuard(c) == waiting[c]

\* Mutant of RequestNext: request_* invokes the action without clearing the
\* confirmation state first.
RequestNext_NoClear == "action"

\* What request_* does once its guard has passed: _clear_confirmation_state,
\* and only then the action.
RequestNext == "clear"

\* request_*: the check of the flag (and the "selected" message).
request ==
    /\ pc[0] = "request"
    /\ UNCHANGED <<CtrlVars, cip, DispVars, alive, nsess, sess, reverted, prearm, btn, mainthread, buttons, proc, light, twin, ftl, conf>>
    /\ IF RequestGuard(ctx[0].c)
       THEN /\ ctx' = [ctx EXCEPT ![0].s = sess[ctx[0].c], ![0].after = "confirm"]
            /\ frame' = [frame EXCEPT
                            !.armedAtConfirm = waiting[ctx[0].c],
                            !.pendingAtConfirm =
                                /\ sess[ctx[0].c] # 0
                                /\ pc[sess[ctx[0].c]] = "pending"]
            /\ Goto(0, RequestNext)
       ELSE /\ UNCHANGED <<ctx, frame>>
            /\ Goto(0, "ret")

\* _clear_confirmation_state: if self._confirmation_timer:
clear(th) ==
    /\ pc[th] = "clear"
    /\ Goto(th, IF timer[ctx[th].c] # 0 THEN "clear_cancel" ELSE "clear_flag")
    /\ UNCHANGED <<CtrlVars, ctx, frame, cip, DispVars, alive, GhostVars, btn, mainthread, buttons, proc, light, twin, ftl, conf>>

\* _clear_confirmation_state: self._confirmation_timer.cancel()
clear_cancel(th) ==
    /\ pc[th] = "clear_cancel"
    /\ IF timer[ctx[th].c] = 0
       THEN /\ Goto(th, RaisePc(th))
            /\ ctx' = Left(th)
       ELSE /\ pc' = [CancelTimer(pc, timer[ctx[th].c]) EXCEPT ![th] = "clear_none"]
            /\ ctx' = ctx
    /\ UNCHANGED <<CtrlVars, frame, cip, DispVars, alive, GhostVars, btn, mainthread, buttons, proc, light, twin, ftl, conf>>

\* _clear_confirmation_state: self._confirmation_timer = None
clear_none(th) ==
    /\ pc[th] = "clear_none"
    /\ timer' = [timer EXCEPT ![ctx[th].c] = 0]
    /\ Goto(th, "clear_flag")
    /\ UNCHANGED <<waiting, ctx, frame, cip, DispVars, alive, GhostVars, btn, mainthread, buttons, proc, light, twin, ftl, conf>>

\* Where a caller of _clear_confirmation_state goes on: cancel_* sleeps and
\* restores the default view, request_* invokes the action.
AfterClear(after) == IF after = "confirm" THEN "action" ELSE "padd"

\* _clear_confirmation_state: self._waiting_for_confirmation = False
clear_flag(th) ==
    /\ pc[th] = "clear_flag"
    /\ waiting' = [waiting EXCEPT ![ctx[th].c] = FALSE]
    /\ Goto(th, AfterClear(ctx[th].after))
    /\ UNCHANGED <<timer, ctx, frame, cip, DispVars, alive, GhostVars, btn, mainthread, buttons, proc, light, twin, ftl, conf>>

\* cancel_update / cancel_confirmation: time.sleep(FEEDBACK_DELAY);
\* self.display.switch_to_padd()
padd(th) ==
    /\ pc[th] = "padd"
    /\ \E r \in PaddResults :
         /\ switch_to_padd(r)
         /\ Goto(th, IF r = "ok" THEN ReturnPc(th) ELSE RaisePc(th))
    /\ reverted' = TRUE
    /\ ctx' = Left(th)
    /\ UNCHANGED <<CtrlVars, frame, cip, alive, nsess, sess, prearm, btn, mainthread, buttons, proc, light, twin, ftl, conf>>

----------------------------------------------------------------------------
\* The administrative actions.

\* The action spawns its external command (Popen / subprocess.run), or the
\* spawn fails with OSError: update_pihole and update_padd catch it
\* (except Exception) and go to their finally block, reboot_system and
\* shutdown_system catch only SubprocessError and let it out.
action ==
    /\ pc[0] = "action"
    /\ \E spawned \in BOOLEAN :
         IF spawned
         THEN /\ alive' = alive \cup {ctx[0].act}
              /\ frame' = frame
              /\ Goto(0, "action_wait")
         ELSE /\ alive' = alive
              /\ frame' = [frame EXCEPT !.exit = "unspawned"]
              /\ Goto(0, IF ctx[0].act \in PiholeActions THEN "action_finally" ELSE "exc")
    /\ UNCHANGED <<CtrlVars, ctx, cip, DispVars, GhostVars, btn, mainthread, buttons, proc, light, twin, ftl, conf>>

\* The external process exits.
ProcExit(a) ==
    /\ a \in alive
    /\ alive' = alive \ {a}
    /\ UNCHANGED <<CtrlVars, pc, ctx, frame, cip, DispVars, GhostVars, btn, mainthread, buttons, proc, light, twin, ftl, conf>>

\* Mutant of ProcessReturned: the caller does not wait for the process.
ProcessReturned_NoWait(a) == TRUE

\* Whether the caller of the external command goes on: only once the
\* process has exited (the poll loop, process.wait(), subprocess.run).
ProcessReturned(a) == a \notin alive

\* The action reads the exit status: update_pihole / update_padd report it
\* and go to their finally block; reboot_system / shutdown_system return on
\* 0 and raise ServiceError otherwise (check=True).
action_wait ==
    /\ pc[0] = "action_wait"
    /\ ProcessReturned(ctx[0].act)
    /\ \E rc \in {0, 1} :
         /\ frame' = [frame EXCEPT !.exit = IF rc = 0 THEN "zero" ELSE "nonzero"]
         /\ Goto(0, IF ctx[0].act \in PiholeActions THEN "action_finally"
                    ELSE IF rc = 0 THEN "ret" ELSE "exc")
    /\ UNCHANGED <<CtrlVars, ctx, cip, DispVars, alive, GhostVars, btn, mainthread, buttons, proc, light, twin, ftl, conf>>

\* finally: time.sleep(FEEDBACK_DELAY); self.display.switch_to_padd()
action_finally ==
    /\ pc[0] = "action_finally"
    /\ \E r \in PaddResults :
         /\ switch_to_padd(r)
         /\ Goto(0, IF r = "ok" THEN "ret" ELSE "exc")
    /\ reverted' = TRUE
    /\ UNCHANGED <<CtrlVars, ctx, frame, cip, alive, nsess, sess, prearm, btn, mainthread, buttons, proc, light, twin, ftl, conf>>

----------------------------------------------------------------------------
Next ==
    \/ button1_pressed
    \/ \E d \in HoldDurations(1) : button1_held(d)
    \/ button2_pressed
    \/ \E d \in HoldDurations(2) : button2_held(d)
    \/ \E b \in {3, 4} : option_pressed(b)
    \/ cancel_confirmation
    \/ HandlerEnd
    \/ show_menu
    \/ start_timer
    \/ start_timer_new
    \/ start_timer_start
    \/ show
    \/ request
    \/ \E t \in TimerIds : handle_timeout(t)
    \/ \E th \in Threads : cancel(th)
    \/ \E th \in Threads : clear(th)
    \/ \E th \in Threads : clear_cancel(th)
    \/ \E th \in Threads : clear_none(th)
    \/ \E th \in Threads : clear_flag(th)
    \/ \E th \in Threads : padd(th)
    \/ action
    \/ \E a \in Actions : ProcExit(a)
    \/ action_wait
    \/ action_finally

Spec == Init /\ [][Next]_vars

\* The steps of timer thread t, and the steps of the callback thread that
\* wait for nothing outside the program.
TimerThread(t) ==
    \/ handle_timeout(t)
    \/ cancel(t)
    \/ clear(t)
    \/ clear_cancel(t)
    \/ clear_none(t)
    \/ clear_flag(t)
    \/ padd(t)

CallbackThread ==
    \/ cancel_confirmation
    \/ HandlerEnd
    \/ show_menu
    \/ start_timer
    \/ start_timer_new
    \/ start_timer_start
    \/ show
    \/ request
    \/ cancel(0)
    \/ clear(0)
    \/ clear_cancel(0)
    \/ clear_none(0)
    \/ clear_flag(0)
    \/ padd(0)

\* Every started thread keeps running: a started Timer fires unless it is
\* cancelled, and a callback that can take a step takes it.
FairSpec ==
    /\ Spec
    /\ \A t \in TimerIds : WF_vars(TimerThread(t))
    /\ WF_vars(CallbackThread)

----------------------------------------------------------------------------
\* ButtonHandler: one button seen from its press and release edges.
\*
\* btn.reg           which callbacks were registered: "press", "hold", "both"
\* btn.thr           self.button.hold_time
\* btn.clock         time.time()
\* btn.hold_start    _hold_start (0 = None)
\* btn.press_handled _press_handled
\* btn.raised        the callback invoked by the last edge raised
\* btn.edge, cycle   the last edge; "open" between a press edge and the
\*                   release edge that follows it
\* btn.ev            the callbacks invoked by the last edge, in order
\* btn.nev           the callbacks invoked since the last press edge

MainVars == <<waiting, timer, pc, ctx, frame, cip, window, backlight, alive,
              nsess, sess, reverted, prearm, mainthread, proc, light, twin, ftl, conf>>

Registrations == {"press", "hold", "both"}
HasHold(reg) == reg \in {"hold", "both"}
HasPress(reg) == reg \in {"press", "both"}

\* ButtonHandler.__init__ / _setup_callbacks
ButtonInit ==
    /\ ControllersInit
    /\ buttons = NoButtons
    /\ \E reg \in Registrations : \E thr \in {SYSTEM_CONTROL_HOLD, UPDATE_SELECT_HOLD} :
         btn = [reg |-> reg, thr |-> thr, clock |-> 1, hold_start |-> 0,
                press_handled |-> FALSE, raised |-> FALSE,
                edge |-> "none", cycle |-> "none", ev |-> <<>>, nev |-> 0]

\* A callback is invoked: it is recorded, and it returns or raises.
Emit(b, k, d, raises) ==
    [b EXCEPT !.ev = Append(@, [k |-> k, d |-> d]),
              !.nev = IF @ < MaxEvents THEN @ + 1 ELSE @,
              !.raised = raises]

\* ButtonHandler._handle_press
handle_press(b, raises) ==
    IF HasPress(b.reg) /\ ~b.press_handled
    THEN LET b1 == Emit(b, "press", 0, raises)
         IN  IF raises THEN b1 ELSE [b1 EXCEPT !.press_handled = TRUE]
    ELSE b

\* Mutant of PressOnEdge: on_press runs the press callback whenever one is
\* registered.
PressOnEdge_Eager(reg) == HasPress(reg)

\* on_press: "if not self._hold_callback", inside the closure that exists
\* only when a hold callback was given.
PressOnEdge(reg) == ~HasHold(reg)

\* The closure on_press of _setup_callbacks.
on_press(b, raises) ==
    LET b1 == [b EXCEPT !.hold_start = b.clock, !.press_handled = FALSE]
    IN  IF PressOnEdge(b.reg) THEN handle_press(b1, raises) ELSE b1

\* Mutant of IsHold: the threshold itself counts as a short press.
IsHold_Strict(d, thr) == d > thr

\* _on_release: hold_duration >= self.button.hold_time
IsHold(d, thr) == d >= thr

\* ButtonHandler._on_release; an exception of the callback leaves the method
\* before _hold_start and _press_handled are reset.
on_release(b, raises) ==
    IF b.hold_start # 0
    THEN LET d == b.clock - b.hold_start
             b1 == IF HasHold(b.reg) /\ IsHold(d, b.thr)
                   THEN Emit(b, "hold", d, raises)
                   ELSE handle_press(b, raises)
         IN  IF b1.raised THEN b1
             ELSE [b1 EXCEPT !.hold_start = 0, !.press_handled = FALSE]
    ELSE [b EXCEPT !.hold_start = 0, !.press_handled = FALSE]

\* What the press edge of a button runs: when_pressed is on_press when a
\* hold callback was given, the press callback itself otherwise.
when_pressed(b, raises) ==
    LET b0 == [b EXCEPT !.ev = <<>>, !.nev = 0, !.raised = FALSE,
                        !.edge = "press", !.cycle = "open"]
    IN  IF HasHold(b.reg) THEN on_press(b0, raises)
        ELSE IF HasPress(b.reg) THEN Emit(b0, "press", 0, raises)
        ELSE b0

\* What the release edge of a button runs: when_released is _on_release
\* when a hold callback was given, and is not set otherwise.
when_released(b, raises) ==
    LET b0 == [b EXCEPT !.ev = <<>>, !.raised = FALSE,
                        !.edge = "release", !.cycle = "none"]
    IN  IF HasHold(b.reg) THEN on_release(b0, raises) ELSE b0

\* time passes
Tick ==
    /\ btn.clock < MaxClock
    /\ btn' = [btn EXCEPT !.clock = @ + 1]
    /\ UNCHANGED <<MainVars, buttons>>

\* A press edge: when_pressed is on_press when a hold callback was given,
\* the press callback itself otherwise.
PressEdge ==
    /\ \E raises \in BOOLEAN : btn' = when_pressed(btn, raises)
    /\ UNCHANGED <<MainVars, buttons>>

\* A release edge: when_released is _on_release when a hold callback was
\* given, and is not set otherwise.
ReleaseEdge ==
    /\ \E raises \in BOOLEAN : btn' = when_released(btn, raises)
    /\ UNCHANGED <<MainVars, buttons>>

ButtonNext ==
    \/ Tick
    \/ PressEdge
    \/ ReleaseEdge

ButtonSpec == ButtonInit /\ [][ButtonNext]_vars

----------------------------------------------------------------------------
\* Two ButtonHandler instances of the program side by side, their edges
\* interleaved in any order, on one clock.

ButtonIds == 1 .. 4

\* The callbacks main() registers: a press and a hold callback for buttons 1
\* and 2, a press callback only for buttons 3 and 4.
registration(i) == IF i \in {1, 2} THEN "both" ELSE "press"

\* ButtonHandler.__init__ of button i, created at clock reading 1.
NewHandler(i) ==
    [reg |-> registration(i), thr |-> hold_time(i), clock |-> 1, hold_start |-> 0,
     press_handled |-> FALSE, raised |-> FALSE,
     edge |-> "none", cycle |-> "none", ev |-> <<>>, nev |-> 0]

TwoButtonInit ==
    /\ ControllersInit
    /\ btn = NoBtn
    /\ \E i, j \in ButtonIds :
         /\ i < j
         /\ buttons = [x \in {i, j} |-> NewHandler(x)]

\* Mutant of Self: _hold_start and _press_handled are shared by all
\* handlers (the state most recently written by any press edge).
Self_Shared(bs, i) ==
    LET last == CHOOSE j \in DOMAIN bs :
                    \A x \in DOMAIN bs : bs[x].hold_start <= bs[j].hold_start
    IN  [bs[i] EXCEPT !.hold_start = bs[last].hold_start,
                      !.press_handled = bs[last].press_handled]

\* The handler whose state an edge callback of button i reads and writes:
\* on_press closes over self, when_released is the bound method
\* self._on_release, and _hold_start / _press_handled are instance
\* attributes.
Self(bs, i) == bs[i]

\* time passes, for every handler alike
TickAll ==
    /\ \A i \in DOMAIN buttons : buttons[i].clock < MaxClock
    /\ buttons' = [i \in DOMAIN buttons |-> [buttons[i] EXCEPT !.clock = @ + 1]]
    /\ UNCHANGED <<MainVars, btn>>

\* A press edge of button i.
PressEdgeOf(i) ==
    /\ \E raises \in BOOLEAN :
         buttons' = [buttons EXCEPT ![i] = when_pressed(Self(buttons, i), raises)]
    /\ UNCHANGED <<MainVars, btn>>

\* A release edge of button i.
ReleaseEdgeOf(i) ==
    /\ \E raises \in BOOLEAN :
         buttons' = [buttons EXCEPT ![i] = when_released(Self(buttons, i), raises)]
    /\ UNCHANGED <<MainVars, btn>>

TwoButtonNext ==
    \/ TickAll
    \/ \E i \in DOMAIN buttons : PressEdgeOf(i)
    \/ \E i \in DOMAIN buttons : ReleaseEdgeOf(i)

TwoButtonSpec == TwoButtonInit /\ [][TwoButtonNext]_vars

----------------------------------------------------------------------------
\* Termination: ButtonManager.cleanup on the main thread, called by the
\* signal handler of main() and again by its finally block.
\*
\* mainthread.pc        "run" (signal.pause), a position inside cleanup, or
\*                      "returned"
\* mainthread.k         index of the button the loop is at
\* mainthread.c         controller whose cleanup is in progress
\* mainthread.closed    buttons whose GPIO handle is closed
\* mainthread.released  pi.stop() has been called on the backlight
\* mainthread.calls     calls of ButtonManager.cleanup so far

\* The four buttons main() adds to the manager.
NumButtons == 4
\* cleanup_handler calls cleanup and exit(0); the finally block of main
\* calls it once more.
MaxCleanups == 2

\* A controller armed and at rest: its menu is up, the timer of its (first)
\* session is waiting, no callback is running; st is the brightness step
\* selected before the arm.
ArmedAtRest(c, st) ==
    /\ waiting = [x \in Ctrl |-> x = c]
    /\ timer = [x \in Ctrl |-> IF x = c THEN 1 ELSE 0]
    /\ pc = [th \in Threads |-> IF th = 0 THEN "idle"
                                ELSE IF th = 1 THEN "pending" ELSE "unborn"]
    /\ ctx = [th \in Threads |-> IF th = 1
                                 THEN [NoCtx EXCEPT !.c = c, !.after = "cancel"]
                                 ELSE NoCtx]
    /\ frame = NoFrame
    /\ cip = FALSE
    /\ window = "control"
    /\ backlight = [step |-> st, level |-> 10, prev |-> brightness_levels[st + 1]]
    /\ alive = {}
    /\ nsess = 1
    /\ sess = [x \in Ctrl |-> IF x = c THEN 1 ELSE 0]
    /\ reverted = FALSE
    /\ prearm = [step |-> st, level |-> brightness_levels[st + 1]]
    /\ btn = NoBtn
    /\ buttons = NoButtons
    /\ mainthread = NoCleanup
    /\ conf = NoConf
    /\ ftl = NoFtl
    /\ twin = NoTwin
    /\ light = NoLight
    /\ proc = NoProc

\* The states a termination signal is taken in: after construction, or with
\* one controller armed and at rest.
CleanupInit ==
    \/ Init
    \/ \E c \in Ctrl : \E st \in 0 .. (Len(brightness_levels) - 1) : ArmedAtRest(c, st)

\* cleanup_handler (SIGTERM / SIGINT), or the finally block of main after it.
cleanup_call ==
    /\ mainthread.pc \in {"run", "returned"}
    /\ mainthread.calls < MaxCleanups
    /\ mainthread' = [mainthread EXCEPT !.pc = "buttons", !.k = 1, !.calls = @ + 1]
    /\ UNCHANGED <<waiting, timer, pc, ctx, frame, cip, window, backlight, alive,
                   nsess, sess, reverted, prearm, btn, buttons, proc, light, twin, ftl, conf>>

\* ButtonManager.cleanup: one pass of "for button in self.buttons:
\* button.cleanup()".  ButtonHandler.cleanup reads self.button.pin.number,
\* which raises on a closed device (its pin is None), and calls
\* self.button.close(), which may raise; either way it raises ButtonError,
\* which ends ButtonManager.cleanup in its except clause.
button_cleanup ==
    /\ mainthread.pc = "buttons"
    /\ \E r \in {"ok", "fail"} :
         mainthread' =
            IF mainthread.k \in mainthread.closed \/ r = "fail"
            THEN [mainthread EXCEPT !.pc = "returned", !.k = 0]
            ELSE [mainthread EXCEPT
                     !.closed = @ \cup {mainthread.k},
                     !.k = IF mainthread.k = NumButtons THEN 0 ELSE @ + 1,
                     !.pc = IF mainthread.k = NumButtons THEN "backlight" ELSE @]
    /\ UNCHANGED <<waiting, timer, pc, ctx, frame, cip, window, backlight, alive,
                   nsess, sess, reverted, prearm, btn, buttons, proc, light, twin, ftl, conf>>

\* ButtonManager.cleanup: self.backlight.cleanup().  DisplayBacklight.cleanup
\* does nothing once pi.stop() has been called (pi.connected is False);
\* otherwise it stops the PWM and the connection, or raises BacklightError,
\* which ends ButtonManager.cleanup in its except clause.
backlight_cleanup ==
    /\ mainthread.pc = "backlight"
    /\ \E r \in {"ok", "fail"} :
         mainthread' =
            IF mainthread.released
            THEN [mainthread EXCEPT !.pc = "clear", !.c = "pihole"]
            ELSE IF r = "ok"
            THEN [mainthread EXCEPT !.released = TRUE, !.pc = "clear", !.c = "pihole"]
            ELSE [mainthread EXCEPT !.pc = "returned"]
    /\ UNCHANGED <<waiting, timer, pc, ctx, frame, cip, window, backlight, alive,
                   nsess, sess, reverted, prearm, btn, buttons, proc, light, twin, ftl, conf>>

\* Where ButtonManager.cleanup goes on after the cleanup of controller c.
AfterCleanup(m) ==
    IF m.c = "pihole" THEN [m EXCEPT !.pc = "clear", !.c = "system"]
    ELSE [m EXCEPT !.pc = "returned", !.c = "none"]

\* PiHole.cleanup / SystemOps.cleanup: _clear_confirmation_state on the main
\* thread, one attribute access per step; an exception (cancel() called on a
\* reference another thread has set to None) is caught and logged by the
\* controller's cleanup.
controller_cleanup ==
    /\ mainthread.pc \in {"clear", "clear_cancel", "clear_none", "clear_flag"}
    /\ LET c == mainthread.c
       IN  CASE mainthread.pc = "clear" ->
                  /\ mainthread' = [mainthread EXCEPT
                                       !.pc = IF timer[c] # 0 THEN "clear_cancel"
                                              ELSE "clear_flag"]
                  /\ UNCHANGED <<waiting, timer, pc>>
             [] mainthread.pc = "clear_cancel" ->
                  /\ IF timer[c] = 0
                     THEN /\ mainthread' = AfterCleanup(mainthread)
                          /\ pc' = pc
                     ELSE /\ mainthread' = [mainthread EXCEPT !.pc = "clear_none"]
                          /\ pc' = CancelTimer(pc, timer[c])
                  /\ UNCHANGED <<waiting, timer>>
             [] mainthread.pc = "clear_none" ->
                  /\ timer' = [timer EXCEPT ![c] = 0]
                  /\ mainthread' = [mainthread EXCEPT !.pc = "clear_flag"]
                  /\ UNCHANGED <<waiting, pc>>
             [] mainthread.pc = "clear_flag" ->
                  /\ waiting' = [waiting EXCEPT ![c] = FALSE]
                  /\ mainthread' = AfterCleanup(mainthread)
                  /\ UNCHANGED <<timer, pc>>
    /\ UNCHANGED <<ctx, frame, cip, window, backlight, alive, nsess, sess,
                   reverted, prearm, btn, buttons, proc, light, twin, ftl, conf>>

CleanupNext ==
    \/ cleanup_call
    \/ button_cleanup
    \/ backlight_cleanup
    \/ controller_cleanup
    \/ \E t \in TimerIds : TimerThread(t)

CleanupSpec == CleanupInit /\ [][CleanupNext]_vars

----------------------------------------------------------------------------
\* _run_process_command (SystemOps and PiHole) and SystemOps.update_system,
\* as one sequential call.
\*
\* proc.mode      "run": _run_process_command called on its own;
\*                "update": update_system
\* proc.pc        position in the call, "returned" or "raised" at its end
\* proc.cmd       the command of the _run_process_command call in progress
\* proc.finish    its finish argument
\* proc.lines     output lines read so far
\* proc.uptodate  the output read so far holds 'All packages are up to date.'
\* proc.rc        return code of the command, "none" before it exits
\* proc.rc1, proc.uptodate1
\*                return code and output of 'apt-get update' in update_system
\* proc.exc       the exception in flight
\* proc.started   the commands spawned, in order
\* proc.switches  calls of display.switch_to_padd made by the call

\* Output lines read from one command.
MaxLines == 2

NewProc(mode, cmd, finish) ==
    [mode |-> mode, pc |-> "popen", cmd |-> cmd, finish |-> finish, lines |-> 0,
     uptodate |-> FALSE, rc |-> "none", rc1 |-> "none", uptodate1 |-> FALSE,
     exc |-> "none",
     started |-> <<>>, switches |-> 0]

\* The call is made with the menu up (request_* has cleared the
\* confirmation state): _run_process_command with either value of finish,
\* or update_system, which starts with 'apt-get update' and finish=False.
CommandInit ==
    /\ waiting = [c \in Ctrl |-> FALSE]
    /\ timer = [c \in Ctrl |-> 0]
    /\ pc = [th \in Threads |-> IF th = 0 THEN "idle" ELSE "unborn"]
    /\ ctx = [th \in Threads |-> NoCtx]
    /\ frame = NoFrame
    /\ cip = FALSE
    /\ window = "control"
    /\ \E st \in 0 .. (Len(brightness_levels) - 1) :
         /\ backlight = [step |-> st, level |-> 10, prev |-> brightness_levels[st + 1]]
         /\ prearm = [step |-> st, level |-> brightness_levels[st + 1]]
    /\ alive = {}
    /\ nsess = 0
    /\ sess = [c \in Ctrl |-> 0]
    /\ reverted = TRUE
    /\ btn = NoBtn
    /\ buttons = NoButtons
    /\ mainthread = NoCleanup
    /\ conf = NoConf
    /\ ftl = NoFtl
    /\ twin = NoTwin
    /\ light = NoLight
    /\ \/ \E finish \in BOOLEAN : proc = NewProc("run", "given", finish)
       \/ proc = NewProc("update", "update", FALSE)

CommandRest == <<waiting, timer, pc, ctx, frame, cip, alive, nsess, sess,
                 reverted, prearm, btn, buttons, mainthread, light, twin, ftl, conf>>

\* _run_process_command: subprocess.Popen.  It spawns the command, or raises
\* OSError (not caught here), or raises SubprocessError, which the except
\* clause reports and re-raises as ServiceError.
run_popen ==
    /\ proc.pc = "popen"
    /\ \E o \in {"spawned", "OSError", "ServiceError"} :
         proc' = IF o = "spawned"
                 THEN [proc EXCEPT !.started = Append(@, proc.cmd), !.pc = "poll"]
                 ELSE [proc EXCEPT !.exc = o, !.pc = "finally"]
    /\ UNCHANGED <<CommandRest, window, backlight>>

\* _run_process_command: one pass of the poll loop reads a line, or the
\* process has exited and process.wait() gives its return code.
run_poll ==
    /\ proc.pc = "poll"
    /\ \/ /\ proc.lines < MaxLines
          /\ \E hit \in BOOLEAN :
               proc' = [proc EXCEPT !.lines = @ + 1, !.uptodate = @ \/ hit]
       \/ \E rc \in {0, 1} : proc' = [proc EXCEPT !.rc = rc, !.pc = "finally"]
    /\ UNCHANGED <<CommandRest, window, backlight>>

\* Mutant of Finishes: the finally block restores the default view whatever
\* finish is.
Finishes_Always(finish) == TRUE

\* _run_process_command, finally: "if finish:"
Finishes(finish) == finish

\* Where the caller goes on when _run_process_command has returned (exc =
\* "none") or raised: on its own the call is over; update_system looks at
\* the result of 'apt-get update', is done after 'apt-get full-upgrade',
\* and catches every exception.
AfterRun(p) ==
    IF p.mode = "run" THEN (IF p.exc = "none" THEN "returned" ELSE "raised")
    ELSE IF p.exc # "none" THEN "except"
    ELSE IF p.cmd = "update" THEN "check" ELSE "returned"

\* _run_process_command, finally: time.sleep(FEEDBACK_DELAY);
\* self.display.switch_to_padd() when finish is set; a DisplayError raised
\* there replaces the result of the call.
run_finally ==
    /\ proc.pc = "finally"
    /\ IF Finishes(proc.finish)
       THEN \E r \in PaddResults :
              /\ switch_to_padd(r)
              /\ LET p == [proc EXCEPT !.switches = @ + 1,
                                       !.exc = IF r = "ok" THEN @ ELSE "DisplayError"]
                 IN  proc' = [p EXCEPT !.pc = AfterRun(p)]
       ELSE /\ UNCHANGED <<window, backlight>>
            /\ proc' = [proc EXCEPT !.pc = AfterRun(proc)]
    /\ UNCHANGED CommandRest

\* Mutant of UpgradeNeeded: the upgrade is started whatever the update said.
UpgradeNeeded_Always(rc, uptodate) == TRUE

\* update_system goes on to 'apt-get full-upgrade' when 'apt-get update'
\* returned 0 and its output does not say that all packages are up to date.
UpgradeNeeded(rc, uptodate) == rc = 0 /\ ~uptodate

\* update_system: the two tests after 'apt-get update'.
update_check ==
    /\ proc.pc = "check"
    /\ proc' = IF UpgradeNeeded(proc.rc, proc.uptodate)
               THEN [proc EXCEPT !.rc1 = proc.rc, !.uptodate1 = proc.uptodate,
                                 !.cmd = "upgrade", !.finish = TRUE, !.rc = "none",
                                 !.lines = 0, !.uptodate = FALSE, !.pc = "popen"]
               ELSE [proc EXCEPT !.rc1 = proc.rc, !.uptodate1 = proc.uptodate,
                                 !.pc = "early"]
    /\ UNCHANGED <<CommandRest, window, backlight>>

\* update_system: time.sleep(FEEDBACK_DELAY); self.display.switch_to_padd();
\* return -- in the failed and the up-to-date branch (inside the try block)
\* and in the except clause (outside it).
update_restore ==
    /\ proc.pc \in {"early", "except"}
    /\ \E r \in PaddResults :
         /\ switch_to_padd(r)
         /\ proc' = [proc EXCEPT
                        !.switches = @ + 1,
                        !.exc = IF r # "ok" THEN "DisplayError"
                                ELSE IF proc.pc = "except" THEN "none" ELSE @,
                        !.pc = IF r = "ok" THEN "returned"
                               ELSE IF proc.pc = "early" THEN "except" ELSE "raised"]
    /\ UNCHANGED CommandRest

CommandNext ==
    \/ run_popen
    \/ run_poll
    \/ run_finally
    \/ update_check
    \/ update_restore

CommandSpec == CommandInit /\ [][CommandNext]_vars

----------------------------------------------------------------------------
\* Properties.

ActionPcs == {"action", "action_wait", "action_finally"}
OptionHandlers == {"button3_pressed", "button4_pressed"}
\* A thread at one of these positions has passed the flag check of
\* cancel_* or request_* and is carrying out that exit.
ExitPcs == {"clear", "clear_cancel", "clear_none", "clear_flag", "padd"} \cup ActionPcs
\* A started timer that has neither fired nor been cancelled.
Pending(t) == pc[t] = "pending"
TimersOf(c) == {t \in TimerIds : ctx[t].c = c}
\* A step of the GPIO callback thread.
ButtonStep == pc'[0] # pc[0]
TimersUntouched == \A t \in TimerIds : pc'[t] = pc[t]

\* C1: in every reachable state at most one of the two controllers has
\* _waiting_for_confirmation = True.
C1_AtMostOneArmed == ~(waiting["pihole"] /\ waiting["system"])

\* C1 witness: an arm request (button 1 or 2 hold) is being handled while a
\* controller is armed and a timer callback of it is running.
C1_Witness ==
    /\ frame.h \in {"button1_held", "button2_held"}
    /\ frame.entry # {}
    /\ Armed # {}
    /\ \E t \in TimerIds : pc[t] \in ExitPcs

\* C2 (first half): an action is in progress only on the callback thread,
\* in a button 3 / button 4 callback whose request_* read the controller's
\* flag as True, and it is the action that button selects on the controller.
C2_StartedOnlyArmed ==
    \A th \in Threads :
        pc[th] \in ActionPcs =>
            /\ th = 0
            /\ frame.h \in OptionHandlers
            /\ frame.armedAtConfirm
            /\ ctx[0].c \in frame.entry
            /\ ctx[0].act = Option(IF frame.h = "button3_pressed" THEN 3 ELSE 4, ctx[0].c)

\* C2 (second half): a press of button 3 or 4 handled while no controller
\* is armed goes straight to its return and changes no flag, timer, display
\* or process state.
C2_IdlePressNoop ==
    (pc[0] = "idle" /\ pc'[0] # "idle" /\ frame'.h \in OptionHandlers /\ Armed = {})
        => /\ pc'[0] = "ret"
           /\ TimersUntouched
           /\ UNCHANGED <<waiting, timer, window, backlight, alive>>

C3_OneExitPerSession ==
    \A t1, t2 \in Threads :
        (t1 # t2 /\ pc[t1] \in ExitPcs /\ pc[t2] \in ExitPcs /\ ctx[t1].s # 0)
            => ctx[t1].s # ctx[t2].s

\* C4 (first half): while a controller is armed, no timer of an earlier
\* session of that controller is still waiting to fire.
C4_EarlierTimersDead ==
    \A c \in Ctrl : \A t \in TimersOf(c) :
        (waiting[c] /\ Pending(t)) => t = sess[c]

\* C4 (second half): a timer callback resets the armed flag, cancels a
\* timer or drops the timer reference only for its own session.
C4_StaleCallbackHarmless ==
    \A t \in TimerIds :
        pc'[t] # pc[t] =>
            /\ (pc[t] = "clear_flag" /\ waiting[ctx[t].c]) => sess[ctx[t].c] = t
            /\ (pc[t] \in {"clear_cancel", "clear_none"}) => timer[ctx[t].c] \in {0, t}

\* C4: a timeout timer started for one armed session never cancels a later
\* session.
C4_NoStaleCancel == [](C4_EarlierTimersDead) /\ [][C4_StaleCallbackHarmless]_vars

\* C5: at most one action executes at any time: an external process is
\* alive only while the callback thread waits for it inside the action that
\* spawned it, so no second action can start before the first has returned.
C5_OneActionAtATime ==
    /\ Cardinality(alive) <= 1
    /\ alive # {} => (pc[0] = "action_wait" /\ alive = {ctx[0].act})
    /\ \A t \in TimerIds : pc[t] \notin ActionPcs

\* C5 witness: an action's process is alive while a timer callback runs.
C5_Witness ==
    /\ alive # {}
    /\ pc[0] = "action_wait"
    /\ \E t \in TimerIds : pc[t] \in ExitPcs

\* C6: while an action is running, neither controller is armed.
C6_NoArmedDuringAction == (pc[0] \in ActionPcs) => Armed = {}

\* C6 witness: an action is running after both controllers have been armed
\* in turn.
C6_Witness == pc[0] \in ActionPcs /\ nsess = MaxSessions /\ alive # {}

\* C7: in every state in which an action started by a controller is
\* running, that controller's flag is False, its timer reference is None and
\* none of its timers is still waiting to fire.
C7_ClearedBeforeAction ==
    (pc[0] \in ActionPcs) =>
        /\ ~waiting[ctx[0].c]
        /\ timer[ctx[0].c] = 0
        /\ \A t \in TimersOf(ctx[0].c) : ~Pending(t)

\* What the callback thread does while it handles an arm request made with
\* the other controller armed.
ArmWhileOther(f) ==
    \/ (f.h = "button1_held" /\ f.entry = {"pihole"})
    \/ (f.h = "button2_held" /\ f.entry = {"system"})

\* The positions of the callback thread inside show_menu.
ArmPcs == {"show_menu", "start_timer", "start_timer_cancel", "start_timer_new",
           "start_timer_start", "show"}

\* C8 as stated: an arm request made while the other controller is armed
\* changes no armed flag and no timer and makes no display call, for button
\* 1 hold while PiHole is armed as for button 2 hold while SystemOps is.
C8_ArmWhileOtherNoop ==
    [][(ButtonStep /\ ArmWhileOther(frame'))
          => /\ UNCHANGED <<waiting, timer, window, backlight>>
             /\ TimersUntouched
             /\ pc'[0] \notin ArmPcs]_vars

\* C8 amended: an arm request made while the other controller is armed
\* never arms a controller and never requests a menu.  A button 2 hold
\* while SystemOps is armed changes no flag and no timer and makes no
\* display call.  A button 1 hold while PiHole is armed is handed to
\* ButtonManager.cancel_confirmation: it leaves SystemOps alone and can only
\* clear the PiHole flag, cancel and drop the PiHole timer and request the
\* default view.
C8_ArmWhileOtherNeverArms ==
    [][(ButtonStep /\ ArmWhileOther(frame'))
          => /\ pc'[0] \notin ArmPcs
             /\ \A c \in Ctrl : waiting'[c] => waiting[c]
             /\ \A c \in Ctrl : timer'[c] \in {timer[c], 0}
             /\ (frame'.h = "button2_held") =>
                    (UNCHANGED <<waiting, timer, window, backlight>> /\ TimersUntouched)
             /\ (frame'.h = "button1_held") =>
                    /\ (pc[0] = "idle") => (pc'[0] = "cancel_confirmation")
                    /\ waiting'["system"] = waiting["system"]
                    /\ timer'["system"] = timer["system"]
                    /\ window' \in {window, "padd"}]_vars

\* C8 witness: a button 1 hold handled while PiHole was armed has cancelled
\* the PiHole confirmation and is about to return.
C8_Witness ==
    /\ frame.h = "button1_held"
    /\ frame.entry = {"pihole"}
    /\ pc[0] = "ret"
    /\ window = "padd"
    /\ Armed = {}

\* C9: when an arm call whose display request failed returns, the
\* controller is not armed and none of its timers is waiting to fire.
C9_FailedPromptDisarms ==
    (pc[0] \in {"ret", "exc"} /\ frame.h \in {"button1_held", "button2_held"} /\ frame.failed)
        => /\ ~waiting[ctx[0].c]
           /\ \A t \in TimersOf(ctx[0].c) : ~Pending(t)

\* C10 (exactly once): no two timer callbacks carry out the auto-cancel of
\* the same session.
C10_TimeoutOnce ==
    \A t1, t2 \in TimerIds :
        (t1 # t2 /\ pc[t1] \in ExitPcs /\ pc[t2] \in ExitPcs /\ ctx[t1].s # 0)
            => ctx[t1].s # ctx[t2].s

\* C10 (never armed forever): an armed controller returns to Idle.
C10_ArmedLeadsToIdle == \A c \in Ctrl : waiting[c] ~> ~waiting[c]

\* C10: the auto-cancel of an armed session is carried out by one timer
\* callback only, and no controller stays armed forever.
C10_TimeoutCancels ==
    /\ [](C10_TimeoutOnce)
    /\ C10_ArmedLeadsToIdle

\* C11: once a confirming press has been accepted while the session's
\* timer had not fired, the callback of that timer never carries out an
\* auto-cancel (cancel message, clearing, display revert).
C11_NoAutoCancelAfterConfirm ==
    (frame.h \in OptionHandlers /\ ctx[0].after = "confirm" /\ frame.pendingAtConfirm)
        => pc[ctx[0].s] \notin ExitPcs

\* The controller and display state a cancel may touch, and the positions
\* of the threads other than th.
OthersUntouched(th) == \A t \in Threads : t # th => pc'[t] = pc[t]

\* C12 (controllers): cancel_update / cancel_confirmation called on a
\* controller that is not armed returns at once and changes no flag, no timer
\* reference, no timer and no display state.
C12_CancelIdleController ==
    \A th \in Threads :
        (pc[th] = "cancel" /\ pc'[th] # pc[th] /\ ~waiting[ctx[th].c])
            => /\ UNCHANGED <<waiting, timer, window, backlight>>
               /\ OthersUntouched(th)
               /\ pc'[th] = ReturnPc(th)

\* C12 (ButtonManager): cancel_confirmation called while neither controller
\* is armed returns at once and changes nothing.
C12_CancelIdleManager ==
    (pc[0] = "cancel_confirmation" /\ pc'[0] # pc[0] /\ Armed = {})
        => /\ UNCHANGED <<waiting, timer, window, backlight>>
           /\ OthersUntouched(0)
           /\ pc'[0] = "ret"

\* C12: cancelling an idle controller is a no-op.
C12_CancelIdleNoop == [][C12_CancelIdleController /\ C12_CancelIdleManager]_vars

\* C12 witness: a cancel issued by a button callback has found its
\* controller already idle (a timer callback cleared it first) and returned.
C12_Witness ==
    /\ pc[0] = "ret"
    /\ frame.h \in {"button1_pressed", "button2_pressed", "button1_held"}
    /\ frame.entry # {}
    /\ ctx[0].after = "cancel"
    /\ ctx[0].s = 0

\* A release edge that ends a press-then-release cycle.
CycleEnds == btn.cycle = "open" /\ btn'.cycle = "none"

\* C13 as stated: for every registration, each press-then-release cycle
\* invokes exactly one callback (press or hold), never none and never both.
C13_ExactlyOneEvent == [][CycleEnds => btn'.nev = 1]_vars

\* C13 amended: a cycle invokes at most one callback; exactly one when a
\* press callback is registered (alone or with a hold callback); with a hold
\* callback only, one when the hold lasted at least hold_time and none
\* otherwise.
C13_OneEventPerCycle ==
    [][CycleEnds =>
          /\ btn'.nev <= 1
          /\ HasPress(btn.reg) => btn'.nev = 1
          /\ (btn.reg = "hold") =>
                 (btn'.nev = 1 <=> btn.clock - btn.hold_start >= btn.thr)]_vars

\* C13 witness: a button with both callbacks has ended a cycle with one
\* hold event, of exactly the threshold duration.
C13_Witness ==
    /\ btn.reg = "both"
    /\ btn.edge = "release"
    /\ btn.hold_start = 0
    /\ btn.nev = 1
    /\ btn.ev = <<[k |-> "hold", d |-> btn.thr]>>

\* A release edge (the clock stands still while a handler runs).
ReleaseStep == btn'.edge = "release" /\ btn'.clock = btn.clock /\ btn' # btn

\* C14: with a hold callback registered, a release measured below hold_time
\* invokes the press callback (when there is one) and not the hold callback;
\* a release measured at hold_time or above invokes the hold callback with
\* that duration and not the press callback.
C14_PressOrHoldByDuration ==
    [][(ReleaseStep /\ HasHold(btn.reg) /\ btn.hold_start # 0) =>
          LET d == btn.clock - btn.hold_start
          IN  /\ (d < btn.thr) =>
                     btn'.ev = IF HasPress(btn.reg) THEN <<[k |-> "press", d |-> 0]>>
                               ELSE <<>>
              /\ (d >= btn.thr) => btn'.ev = <<[k |-> "hold", d |-> d]>>]_vars

\* C14 witness: a button with both callbacks was released below hold_time
\* and its press callback has run.
C14_Witness ==
    /\ btn.reg = "both"
    /\ btn.edge = "release"
    /\ btn.ev = <<[k |-> "press", d |-> 0]>>
    /\ btn.hold_start = 0
    /\ ~btn.raised

\* C15 (state): after every processed release _hold_start is None.
C15_HoldStartUnset == (btn.edge = "release") => btn.hold_start = 0

\* C15 (step): a release edge with no press edge since the previous release
\* invokes no callback and leaves _hold_start and _press_handled as they were.
C15_StrayRelease ==
    (ReleaseStep /\ btn.cycle = "none")
        => /\ btn'.ev = <<>>
           /\ btn'.hold_start = btn.hold_start
           /\ btn'.press_handled = btn.press_handled

\* C15: a release edge not preceded by a press edge is a no-op, also when
\* the callback invoked by the previous release raised.
C15_StrayReleaseNoop == [](C15_HoldStartUnset) /\ [][C15_StrayRelease]_vars

Button1Handlers == {"button1_pressed", "button1_held"}

\* C16 (step): a press or hold of button 1 handled while a controller is
\* armed goes to cancel_confirmation; it never steps the brightness (the
\* backlight changes only when switch_to_padd restores it), never arms a
\* controller and never requests a menu.
C16_Button1Step ==
    (ButtonStep /\ frame'.h \in Button1Handlers /\ frame'.entry # {})
        => /\ (pc[0] = "idle") => (pc'[0] = "cancel_confirmation")
           /\ (backlight' # backlight) => (pc[0] = "padd")
           /\ pc'[0] \notin ArmPcs
           /\ \A c \in Ctrl : waiting'[c] => waiting[c]

\* C16 (result): when that callback returns, no controller is armed.
C16_Button1Cancelled ==
    (pc[0] = "ret" /\ frame.h \in Button1Handlers /\ frame.entry # {}) => Armed = {}

\* C16: while a controller is armed, a press or hold of button 1 cancels
\* the confirmation and does nothing else.
C16_Button1OnlyCancels == [](C16_Button1Cancelled) /\ [][C16_Button1Step]_vars

\* C16 witness: a button 1 press handled while a controller was armed has
\* cancelled that session itself and restored the default view.
C16_Witness ==
    /\ pc[0] = "ret"
    /\ frame.h = "button1_pressed"
    /\ frame.entry # {}
    /\ ctx[0].s # 0
    /\ window = "padd"
    /\ Armed = {}

\* No callback and no timer callback is running.
Quiet ==
    /\ pc[0] = "idle"
    /\ \A t \in TimerIds : pc[t] \in {"unborn", "created", "pending", "done"}

\* C17: no confirmation flow ends (no callback running, no controller
\* armed) without switch_to_padd having been requested since the arm.
C17_FlowEndsAtPadd == (Quiet /\ Armed = {}) => reverted

\* C18: when the command of a confirmed action exits with a non-zero code,
\* the action reports the failure and goes on; it does not raise.
C18_NonZeroExitReported ==
    [][(pc[0] = "action_wait" /\ pc'[0] # pc[0] /\ frame'.exit = "nonzero")
          => pc'[0] # "exc"]_vars

\* C19: when the command of a confirmed action cannot be spawned, the
\* action reports the error and goes on; it does not raise.
C19_SpawnFailureReported ==
    [][(pc[0] = "action" /\ pc'[0] # pc[0] /\ frame'.exit = "unspawned")
          => pc'[0] # "exc"]_vars

\* The action the displayed menu of controller c lists for button b
\* (show_pihole_menu / show_system_menu).
MenuAction(b, c) ==
    IF c = "pihole"
    THEN (IF b = 2 THEN "update_gravity" ELSE IF b = 3 THEN "update_pihole"
          ELSE "update_padd")
    ELSE (IF b = 2 THEN "update_system" ELSE IF b = 3 THEN "reboot_system"
          ELSE "shutdown_system")

PressHandler(b) ==
    IF b = 2 THEN "button2_pressed" ELSE IF b = 3 THEN "button3_pressed"
    ELSE "button4_pressed"

\* C20: a press of option button 2, 3 or 4 handled while controller c is
\* armed goes to the request of the action the menu of c lists for that
\* button, on controller c.
C20_OptionStartsListedAction ==
    [][\A b \in {2, 3, 4} : \A c \in Ctrl :
          (pc[0] = "idle" /\ pc'[0] # "idle" /\ frame'.h = PressHandler(b) /\ Armed = {c})
              => /\ pc'[0] = "request"
                 /\ ctx'[0].c = c
                 /\ ctx'[0].act = MenuAction(b, c)]_vars

\* C21 (routing): an event handled while neither controller is armed goes
\* to the button's own handler: a hold of button 2 to PiHole.show_menu, a
\* hold of button 1 to SystemOps.show_menu, a press of button 1 to
\* step_brightness.
C21_RoutedToOwnHandler ==
    (pc[0] = "idle" /\ pc'[0] # "idle" /\ Armed = {})
        => /\ (frame'.h = "button2_held") =>
                  (pc'[0] = "show_menu" /\ ctx'[0].c = "pihole")
           /\ (frame'.h = "button1_held") =>
                  (pc'[0] = "show_menu" /\ ctx'[0].c = "system")
           /\ (frame'.h = "button1_pressed") =>
                  (pc'[0] = "ret" /\ backlight' = step_brightness(backlight))

\* C21 (arming): show_menu called with a hold of at least the threshold
\* arms its controller.
C21_HoldArms ==
    (pc[0] = "show_menu" /\ pc'[0] # pc[0] /\ frame.d >= HoldOf(ctx[0].c))
        => (waiting'[ctx[0].c] /\ pc'[0] = "start_timer")

\* C21: while neither controller is armed every event reaches its button's
\* own handler, whatever events came before; a button 2 hold is not dropped
\* because an earlier button 2 press cancelled a confirmation.
C21_IdleRouting == [][C21_RoutedToOwnHandler /\ C21_HoldArms]_vars

\* The callbacks of the buttons main.py never routes to a request_* method.
NonOptionHandlers == {"button1_pressed", "button1_held", "button2_pressed", "button2_held"}

\* C22 (step): an event of button 1 or 2 handled while a controller is armed
\* is handed to cancel_confirmation and does nothing else: no brightness
\* step, no change of cancellation_in_progress, no arm.
C22_NonOptionStep ==
    (pc[0] = "idle" /\ pc'[0] # "idle" /\ frame'.h \in NonOptionHandlers /\ Armed # {})
        => /\ pc'[0] = "cancel_confirmation"
           /\ backlight' = backlight
           /\ cip' = cip

\* C22 (result): when that callback returns, no controller is armed.
C22_NonOptionCancelled ==
    (pc[0] = "ret" /\ frame.h \in NonOptionHandlers /\ frame.entry # {}) => Armed = {}

\* C22: while a controller is armed, every press or hold of a button that
\* confirms nothing cancels the confirmation and performs no other action.
C22_NonOptionCancels == [](C22_NonOptionCancelled) /\ [][C22_NonOptionStep]_vars

\* C23: whenever ButtonManager.cleanup has returned, every button handle is
\* closed, the backlight is released, neither controller is armed and no
\* confirmation timer is waiting to fire.
C23_CleanupReleasesAll ==
    (mainthread.pc = "returned") =>
        /\ mainthread.closed = 1 .. NumButtons
        /\ mainthread.released
        /\ Armed = {}
        /\ \A t \in TimerIds : pc[t] \notin {"created", "pending"}

\* C24: while the callback thread waits for the process of a started
\* action, no step of any thread changes the action or its controller,
\* starts another callback or another process, or ends the process; the
\* callback leaves the wait only after the process has exited.
C24_ActionRunsToExit ==
    [][(pc[0] = "action_wait") =>
          /\ ctx'[0].act = ctx[0].act
          /\ ctx'[0].c = ctx[0].c
          /\ frame'.h = frame.h
          /\ alive' \subseteq alive
          /\ (alive' # alive) => pc' = pc
          /\ (pc'[0] # "action_wait") =>
                 (alive = {} /\ pc'[0] \in {"action_finally", "ret", "exc"})]_vars

\* C24 witness: an action has gone on after its process exited, while a
\* timer callback is running.
C24_Witness ==
    /\ pc[0] = "action_finally"
    /\ frame.exit \in {"zero", "nonzero"}
    /\ alive = {}
    /\ \E t \in TimerIds : pc[t] \in ExitPcs

\* An edge of button i is processed (the clock stands still meanwhile).
EdgeOf(i) ==
    /\ buttons'[i] # buttons[i]
    /\ buttons'[i].clock = buttons[i].clock

\* C25 (independence): processing an edge of one button leaves the state
\* of every other handler as it was.
C25_OthersUntouched ==
    \A i \in DOMAIN buttons : \A j \in DOMAIN buttons :
        (EdgeOf(i) /\ j # i) => buttons'[j] = buttons[j]

\* C25 (own classification): the release that ends a cycle of button i
\* leaves exactly one event for the cycle; with a hold callback it is the
\* hold callback when the time since the button's own press edge is at least
\* the button's own hold_time and the press callback otherwise; a button
\* with a press callback only has had its event on the press edge.
C25_OwnCycle ==
    \A i \in DOMAIN buttons :
        (EdgeOf(i) /\ buttons[i].cycle = "open" /\ buttons'[i].cycle = "none") =>
            LET b == buttons[i]
                d == b.clock - b.hold_start
            IN  /\ buttons'[i].nev = 1
                /\ buttons'[i].ev =
                       IF ~HasHold(b.reg) THEN <<>>
                       ELSE IF d >= b.thr THEN <<[k |-> "hold", d |-> d]>>
                       ELSE <<[k |-> "press", d |-> 0]>>

\* C25: edge handling is independent per button: when the cycles of two
\* buttons interleave, each cycle yields exactly one event, classified by
\* its own button's duration and threshold.
C25_IndependentButtons == [][C25_OthersUntouched /\ C25_OwnCycle]_vars

\* C25 witness: button 1 was released after a hold of exactly its
\* threshold while a cycle of button 2, begun after button 1 was pressed, is
\* still open.
C25_Witness ==
    /\ DOMAIN buttons = {1, 2}
    /\ buttons[1].edge = "release"
    /\ buttons[1].ev = <<[k |-> "hold", d |-> SYSTEM_CONTROL_HOLD]>>
    /\ buttons[2].cycle = "open"
    /\ buttons[2].hold_start > buttons[1].clock - SYSTEM_CONTROL_HOLD

\* Thread th applies a default-view restore (switch_to_padd after the
\* FEEDBACK_DELAY sleep of a cancel or of a finished action).
RestoreStep(th) == pc[th] \in {"padd", "action_finally"} /\ pc'[th] # pc[th]

\* The callback thread is inside a show_menu call (an arm in progress).
InShowMenu ==
    /\ frame.h \in {"button1_held", "button2_held"}
    /\ frame.entry = {}
    /\ pc[0] \notin {"idle", "ret", "exc"}

\* C26: no default-view restore is applied while a controller is armed and
\* its show_menu call has returned, so the restore of an earlier session
\* never replaces the menu of a newer one.
C26_NoStaleRestore ==
    [][\A th \in Threads :
          RestoreStep(th) => ~(Armed # {} /\ ~InShowMenu)]_vars

\* C27: whenever no callback and no timer callback is running, each
\* controller is armed exactly when the timer it refers to is waiting to
\* fire; an idle controller refers to no timer and none of its timers is
\* waiting; no controller has two timers waiting at once.
C27_TimerFlagConsistent ==
    Quiet =>
        \A c \in Ctrl :
            /\ waiting[c] <=> (timer[c] # 0 /\ Pending(timer[c]))
            /\ ~waiting[c] => (timer[c] = 0 /\ \A t \in TimersOf(c) : ~Pending(t))
            /\ Cardinality({t \in TimersOf(c) : Pending(t)}) <= 1

\* The call has ended, by a return or by an exception.
ProcEnded == proc.pc \in {"returned", "raised"}

\* C28: _run_process_command called with finish=True has called
\* switch_to_padd exactly once when it ends, whether the command exited with
\* zero, exited with non-zero or could not be started; called with
\* finish=False it never calls switch_to_padd.
C28_RestoresByFinishFlag ==
    (proc.mode = "run") =>
        /\ ~proc.finish => proc.switches = 0
        /\ proc.finish => proc.switches <= 1
        /\ (ProcEnded /\ proc.finish) => proc.switches = 1

\* C28 witness: a call with finish=True whose command could not be started
\* has ended by that exception after one switch_to_padd.
C28_Witness ==
    /\ proc.mode = "run"
    /\ proc.finish
    /\ proc.pc = "raised"
    /\ proc.exc = "OSError"
    /\ proc.started = <<>>
    /\ proc.switches = 1
    /\ window = "padd"

\* C29 (order): update_system starts 'apt-get full-upgrade' only after
\* 'apt-get update' has returned 0 with an output that does not say all
\* packages are up to date, and never starts anything else.
C29_UpgradeAfterUpdate ==
    (proc.mode = "update") =>
        /\ proc.started \in {<<>>, <<"update">>, <<"update", "upgrade">>}
        /\ (Len(proc.started) = 2) => (proc.rc1 = 0 /\ ~proc.uptodate1)

\* C29 (restore): when update_system ends it has called switch_to_padd
\* exactly once.
C29_RestoredOnce ==
    (proc.mode = "update" /\ ProcEnded) => proc.switches = 1

\* C29: update_system runs its two commands in order and conditionally,
\* and on every path returns the display to the default view exactly once.
C29_UpdateSystemPaths == C29_UpgradeAfterUpdate /\ C29_RestoredOnce

\* The backlight is as it was immediately before the last arm.
AsBeforeArm(bl) == bl.step = prearm.step /\ bl.level = prearm.level

\* C30 (restore): a default-view restore that changes the backlight leaves
\* level and current_step as they were immediately before the arm.
C30_RestoreGivesBack ==
    \A th \in Threads :
        (RestoreStep(th) /\ backlight' # backlight) => AsBeforeArm(backlight')

\* C30 (completed action): when the callback of a confirmed action returns,
\* level and current_step are as they were immediately before the arm.
C30_ActionGivesBack ==
    (pc[0] = "ret" /\ frame.h \in OptionHandlers /\ frame.exit # "none")
        => AsBeforeArm(backlight)

\* C30 (menu): a display request that succeeded leaves the level at 1.0.
C30_MenuAtFull ==
    (pc[0] = "show" /\ pc'[0] # pc[0] /\ ~frame'.failed) => backlight'.level = 10

\* C30: the brightness selected before an arm is in force again, level and
\* current_step, when the menu session has ended; while the menu is shown
\* the level is 1.0.
C30_BrightnessPreserved ==
    /\ [](C30_ActionGivesBack)
    /\ [][C30_RestoreGivesBack /\ C30_MenuAtFull]_vars

----------------------------------------------------------------------------
\* DisplayBacklight on its own: the constructor and step_brightness.

\* Largest retry_attempts of the configuration explored.
MaxRetry == 3
\* Calls of step_brightness followed on one object.
MaxSteps == 5

\* brightness_levels lists of the configuration, in tenths: lists the
\* constructor accepts and lists it rejects.
LevelLists == {<<10, 5>>, <<10, 5, 0>>, <<10, 7, 3, 0>>, <<8, 8, 2>>,
               <<5, 10>>, <<10>>, <<>>}

\* DisplayBacklight._validate_brightness_levels returns without raising.
validate_brightness_levels(levels) ==
    /\ Len(levels) >= 2
    /\ \A i \in 1 .. Len(levels) : levels[i] \in 0 .. 10
    /\ \A i \in 1 .. (Len(levels) - 1) : ~(levels[i] < levels[i + 1])

\* DisplayBacklight.__init__ up to the call of _initialize_pwm: the fields
\* read from the configuration, current_step = 0, pi = None.  The hardware
\* duty cycle has not been driven.  start and run count the calls of
\* step_brightness that returned, one after the other, since the step was
\* start.
NewLight(levels, retry) ==
    [mode |-> "light",
     pc |-> IF validate_brightness_levels(levels) THEN "init" ELSE "raised",
     brightness_levels |-> levels, retry_attempts |-> retry, attempt |-> 0,
     pi |-> "none", current_step |-> 0, driven |-> FALSE, level |-> 0,
     calls |-> 0, raised |-> FALSE, start |-> 0, run |-> 0]

BacklightInit ==
    /\ waiting = [c \in Ctrl |-> FALSE]
    /\ timer = [c \in Ctrl |-> 0]
    /\ pc = [th \in Threads |-> IF th = 0 THEN "idle" ELSE "unborn"]
    /\ ctx = [th \in Threads |-> NoCtx]
    /\ frame = NoFrame
    /\ cip = FALSE
    /\ window = "padd"
    /\ backlight = [step |-> 0, level |-> brightness_levels[1], prev |-> 10]
    /\ alive = {}
    /\ nsess = 0
    /\ sess = [c \in Ctrl |-> 0]
    /\ reverted = TRUE
    /\ prearm = [step |-> 0, level |-> brightness_levels[1]]
    /\ btn = NoBtn
    /\ buttons = NoButtons
    /\ mainthread = NoCleanup
    /\ conf = NoConf
    /\ ftl = NoFtl
    /\ twin = NoTwin
    /\ proc = NoProc
    /\ \E levels \in LevelLists : \E retry \in 0 .. MaxRetry :
         light = NewLight(levels, retry)

BacklightRest == <<waiting, timer, pc, ctx, frame, cip, window, backlight,
                   alive, nsess, sess, reverted, prearm, btn, mainthread,
                   buttons, proc, twin, ftl, conf>>

\* What one pass of the loop body of _initialize_pwm can meet: pigpio.pi()
\* gives a handle that is not connected, set_mode raises, hardware_PWM
\* raises, or nothing fails.
AttemptResults == {"ok", "no_daemon", "mode_fail", "pwm_fail"}

\* for attempt in range(self.retry_attempts): another pass begins.
LoopRuns(attempt, retry) == attempt < retry

\* DisplayBacklight._initialize_pwm, one pass of the loop (or its end).  A
\* pass that fails raises BacklightError to __init__ when it was the last of
\* range(retry_attempts), and sleeps otherwise; a pass that succeeds breaks.
\* When range(retry_attempts) has no further value the loop ends and
\* _initialize_pwm returns.
initialize_pwm(r) ==
    /\ light.mode = "light"
    /\ light.pc = "init"
    /\ UNCHANGED BacklightRest
    /\ IF LoopRuns(light.attempt, light.retry_attempts)
       THEN light' = [light EXCEPT
                !.attempt = @ + 1,
                !.pi = IF r = "no_daemon" THEN "unconnected" ELSE "connected",
                !.driven = IF r = "ok" THEN TRUE ELSE @,
                !.level = IF r = "ok" THEN light.brightness_levels[1] ELSE @,
                !.pc = IF r = "ok" THEN "ready"
                       ELSE IF light.attempt = light.retry_attempts - 1
                            THEN "raised" ELSE "init"]
       ELSE /\ r = "ok"
            /\ light' = [light EXCEPT !.pc = "ready"]

\* What a call of step_brightness can meet once the handle is connected.
StepResults == {"ok", "pwm_fail"}

\* Mutant of next_step: the step stops at the last level.
next_step_Saturating(step, levels) ==
    IF step + 1 < Len(levels) THEN step + 1 ELSE step

\* (self.current_step + 1) % len(self.brightness_levels)
next_step(step, levels) == (step + 1) % Len(levels)

\* DisplayBacklight.get_brightness_percentage, for a connected handle.
get_brightness_percentage(l) == l.brightness_levels[l.current_step + 1] * 10

\* DisplayBacklight.step_brightness on a constructed object.  Without a
\* connected handle it raises and changes nothing; otherwise it assigns
\* current_step, and set_brightness drives the level unless hardware_PWM
\* raises, in which case the call raises BacklightError.
step_brightness_call(r) ==
    /\ light.mode = "light"
    /\ light.pc = "ready"
    /\ light.calls < MaxSteps
    /\ UNCHANGED BacklightRest
    /\ IF light.pi # "connected"
       THEN /\ r = "ok"
            /\ light' = [light EXCEPT !.calls = @ + 1, !.raised = TRUE,
                                      !.start = light.current_step, !.run = 0]
       ELSE LET n == next_step(light.current_step, light.brightness_levels)
            IN  light' = [light EXCEPT
                    !.calls = @ + 1,
                    !.current_step = n,
                    !.raised = (r = "pwm_fail"),
                    !.level = IF r = "ok" THEN light.brightness_levels[n + 1] ELSE @,
                    !.start = IF r = "ok" THEN @ ELSE n,
                    !.run = IF r = "ok" THEN @ + 1 ELSE 0]

BacklightNext ==
    \/ \E r \in AttemptResults : initialize_pwm(r)
    \/ \E r \in StepResults : step_brightness_call(r)

BacklightSpec == BacklightInit /\ [][BacklightNext]_vars

\* C31: on a constructed DisplayBacklight, current_step is always an index
\* of brightness_levels; a call of step_brightness that returns moves
\* current_step to the next index modulo the number of levels and drives the
\* backlight at that level (which get_brightness_percentage then reports);
\* and after as many returned calls in a row as there are levels
\* current_step is the step the row started from.
C31_StepInRange ==
    (light.mode = "light" /\ light.pc = "ready")
        => light.current_step \in 0 .. (Len(light.brightness_levels) - 1)

C31_CycleReturns ==
    (light.mode = "light" /\ light.pc = "ready")
        => /\ light.current_step
                = (light.start + light.run) % Len(light.brightness_levels)
           /\ (light.run > 0 /\ light.run % Len(light.brightness_levels) = 0)
                => light.current_step = light.start

C31_StepReturned ==
    /\ light.mode = "light"
    /\ light'.calls = light.calls + 1
    /\ ~light'.raised

C31_StepAdvances ==
    C31_StepReturned
        => /\ light'.current_step
                = (light.current_step + 1) % Len(light.brightness_levels)
           /\ light.current_step = Len(light.brightness_levels) - 1
                => light'.current_step = 0
           /\ light'.level = light.brightness_levels[light'.current_step + 1]
           /\ get_brightness_percentage(light') = light'.level * 10

C31_StepBrightnessCycles ==
    /\ [](C31_StepInRange /\ C31_CycleReturns)
    /\ [][C31_StepAdvances]_vars

\* A row of as many returned steps as there are levels, on the longest list,
\* has come back to the step it started from.
C31_Witness ==
    /\ light.mode = "light"
    /\ light.pc = "ready"
    /\ Len(light.brightness_levels) = 4
    /\ light.run = 4
    /\ light.current_step = light.start

\* C32: for every retry_attempts, the constructor of DisplayBacklight either
\* returns with a connected pigpio handle and the backlight driven at
\* brightness_levels[0], or raises BacklightError; it makes at most
\* retry_attempts attempts and none after the first that succeeds.
C32_Constructed ==
    /\ light.mode = "light"
    /\ light.pc = "ready"
    /\ light.calls = 0

C32_ReturnsInitialised ==
    C32_Constructed
        => /\ light.pi = "connected"
           /\ light.driven
           /\ light.level = light.brightness_levels[1]
           /\ light.current_step = 0

C32_AtMostRetryAttempts ==
    light.mode = "light" => light.attempt <= light.retry_attempts

C32_StopsAtFirstSuccess ==
    (light.mode = "light" /\ light.pc # "init")
        => light'.attempt = light.attempt

C32_InitRetries ==
    /\ [](C32_ReturnsInitialised /\ C32_AtMostRetryAttempts)
    /\ [][C32_StopsAtFirstSuccess]_vars

----------------------------------------------------------------------------
\* The two controllers side by side: every event is handed to PiHole and to
\* SystemOps, and each runs its whole method before the next event.

\* Events followed in one run.
MaxTwinEvents == 4

\* One controller after __init__: not waiting, no timer, no display request
\* made, no action started.
NewMachine == [waiting |-> FALSE, timer |-> "none", log |-> <<>>, started |-> 0]

TwinInit ==
    /\ waiting = [c \in Ctrl |-> FALSE]
    /\ timer = [c \in Ctrl |-> 0]
    /\ pc = [th \in Threads |-> IF th = 0 THEN "idle" ELSE "unborn"]
    /\ ctx = [th \in Threads |-> NoCtx]
    /\ frame = NoFrame
    /\ cip = FALSE
    /\ window = "padd"
    /\ backlight = [step |-> 0, level |-> brightness_levels[1], prev |-> 10]
    /\ alive = {}
    /\ nsess = 0
    /\ sess = [c \in Ctrl |-> 0]
    /\ reverted = TRUE
    /\ prearm = [step |-> 0, level |-> brightness_levels[1]]
    /\ btn = NoBtn
    /\ buttons = NoButtons
    /\ mainthread = NoCleanup
    /\ conf = NoConf
    /\ ftl = NoFtl
    /\ proc = NoProc
    /\ light = NoLight
    /\ twin = [mode |-> "twin", n |-> 0, m |-> [c \in Ctrl |-> NewMachine]]

TwinRest == <<waiting, timer, pc, ctx, frame, cip, window, backlight,
              alive, nsess, sess, reverted, prearm, btn, mainthread,
              buttons, proc, light, ftl, conf>>

\* _clear_confirmation_state
clear_whole(m) == [m EXCEPT !.timer = "none", !.waiting = FALSE]

\* cancel_update / cancel_confirmation, the whole call.
cancel_whole(m) ==
    IF m.waiting
    THEN [clear_whole(m) EXCEPT !.log = Append(@, "switch_to_padd")]
    ELSE m

\* show_menu with a hold time that reaches the controller's threshold, the
\* whole call; ok is the result of the display request.
show_menu_whole(c, m, ok) ==
    LET armed == [m EXCEPT !.waiting = TRUE, !.timer = "pending",
                           !.log = Append(@, "show_menu")]
    IN  IF AfterShow(c, ok) = "cancel" THEN cancel_whole(armed) ELSE armed

\* request_*, up to the start of the action.
request_whole(m) ==
    IF m.waiting
    THEN [clear_whole(m) EXCEPT !.started = @ + 1]
    ELSE m

\* The Timer thread of a pending timer: _handle_timeout, the whole call.
handle_timeout_whole(m) ==
    IF m.timer = "pending"
    THEN (IF m.waiting THEN cancel_whole(m) ELSE [m EXCEPT !.timer = "fired"])
    ELSE m

\* The state after one event that left the controllers as ms.
Handed(ms) == [twin EXCEPT !.n = @ + 1, !.m = ms]

\* Both controllers are armed (their button is held long enough); ok is the
\* result of the display request.
TwinArm ==
    /\ twin.mode = "twin"
    /\ twin.n < MaxTwinEvents
    /\ \E ok \in BOOLEAN :
         twin' = Handed([c \in Ctrl |-> show_menu_whole(c, twin.m[c], ok)])
    /\ UNCHANGED TwinRest

\* An option button is pressed.
TwinOption ==
    /\ twin.mode = "twin"
    /\ twin.n < MaxTwinEvents
    /\ twin' = Handed([c \in Ctrl |-> request_whole(twin.m[c])])
    /\ UNCHANGED TwinRest

\* An explicit cancel.
TwinCancel ==
    /\ twin.mode = "twin"
    /\ twin.n < MaxTwinEvents
    /\ twin' = Handed([c \in Ctrl |-> cancel_whole(twin.m[c])])
    /\ UNCHANGED TwinRest

\* CONFIRMATION_TIMEOUT has passed since the last arm: every pending timer
\* fires.
TwinTimerFire ==
    /\ twin.mode = "twin"
    /\ twin.n < MaxTwinEvents
    /\ \E c \in Ctrl : twin.m[c].timer = "pending"
    /\ twin' = Handed([c \in Ctrl |-> handle_timeout_whole(twin.m[c])])
    /\ UNCHANGED TwinRest

TwinNext == TwinArm \/ TwinOption \/ TwinCancel \/ TwinTimerFire

TwinSpec == TwinInit /\ [][TwinNext]_vars

\* C33: fed the same sequence of arm, option press, cancel, timer-fire and
\* display-failure events, PiHole and SystemOps are in the same state after
\* every event: the same armed flag, the same timer state, the same display
\* requests issued so far and the same number of actions started.
C33_SameMachine ==
    twin.mode = "twin" => twin.m["pihole"] = twin.m["system"]

----------------------------------------------------------------------------
\* The handlers of main.py that call ButtonManager.cancel_confirmation.
CancelHandlers == {"button1_pressed", "button1_held", "button2_pressed"}

\* ButtonManager.cancel_confirmation was called by the callback in progress
\* and has returned.
CancelReturned ==
    /\ pc[0] = "ret"
    /\ frame.h \in CancelHandlers
    /\ frame.entry # {}

\* cancel_confirmation found a controller armed and called its cancel method.
CancelFoundArmed == ctx[0].after = "cancel"

\* Controller c holds a timer that can still fire.
HoldsPendingTimer(c) == timer[c] # 0 /\ pc[timer[c]] \in {"created", "pending"}

\* C34: when ButtonManager.cancel_confirmation has returned, neither
\* controller is armed, neither holds a timer that can still fire, and if
\* the call found a controller armed the display has been sent to the
\* default view.
C34_NothingArmed == CancelReturned => Armed = {}

C34_NoPendingTimer == CancelReturned => \A c \in Ctrl : ~HoldsPendingTimer(c)

C34_SentToDefault == (CancelReturned /\ CancelFoundArmed) => reverted

C34_CancelLeavesNothingPending ==
    C34_NothingArmed /\ C34_NoPendingTimer /\ C34_SentToDefault

----------------------------------------------------------------------------
\* A press edge (the clock stands still while a handler runs).
PressStep == btn'.edge = "press" /\ btn'.clock = btn.clock /\ btn' # btn

\* C35 (hold callback registered, press edge): no callback is invoked; the
\* edge records the hold start and resets _press_handled.
C35_HoldPressEdge ==
    (PressStep /\ HasHold(btn.reg))
        => /\ btn'.ev = <<>>
           /\ btn'.hold_start = btn.clock
           /\ ~btn'.press_handled

\* C35 (hold callback registered, release edge of a cycle): this is where
\* the callback runs: exactly one when a press callback is registered too,
\* the hold callback alone for a hold of at least hold_time otherwise.
C35_HoldReleaseEdge ==
    (ReleaseStep /\ HasHold(btn.reg) /\ btn.hold_start # 0)
        => /\ HasPress(btn.reg) => Len(btn'.ev) = 1
           /\ (btn.clock - btn.hold_start >= btn.thr) => Len(btn'.ev) = 1
           /\ \A i \in 1 .. Len(btn'.ev) :
                 btn'.ev[i].k = "hold" <=> btn.clock - btn.hold_start >= btn.thr

\* C35 (press callback only): the press edge invokes the press callback and
\* the release edge invokes nothing and changes no detector state.
C35_PressOnly ==
    (btn.reg = "press")
        => /\ PressStep => btn'.ev = <<[k |-> "press", d |-> 0]>>
           /\ ReleaseStep => /\ btn'.ev = <<>>
                             /\ btn'.hold_start = btn.hold_start
                             /\ btn'.press_handled = btn.press_handled

\* C35: with a hold callback nothing is dispatched at the press edge and the
\* press or hold callback runs at the release edge; with a press callback
\* only, the press callback runs at the press edge and the release edge
\* dispatches nothing.
C35_DispatchEdge ==
    [][C35_HoldPressEdge /\ C35_HoldReleaseEdge /\ C35_PressOnly]_vars

\* C35 witness: a button with both callbacks has taken a press edge: nothing
\* was invoked and the hold start is recorded.
C35_Witness ==
    /\ btn.reg = "both"
    /\ btn.edge = "press"
    /\ btn.ev = <<>>
    /\ btn.hold_start = btn.clock

----------------------------------------------------------------------------
\* show_menu called with any hold time: besides the durations ButtonHandler
\* hands over (at least the button's hold_time), the hold callbacks of main.py
\* are called with shorter ones.

ShortDurations(b) == {d \in Durations : d < hold_time(b)}

MenuNext ==
    \/ Next
    \/ \E d \in ShortDurations(1) : button1_held(d)
    \/ \E d \in ShortDurations(2) : button2_held(d)

MenuSpec == Init /\ [][MenuNext]_vars

\* The positions of the callback thread inside _start_confirmation_timer.
StartTimerPcs == {"start_timer", "start_timer_cancel", "start_timer_new",
                  "start_timer_start"}

\* C36 (below the threshold): show_menu returns at once; the armed flags, the
\* timers, the Timer threads and the display are as they were.
C36_BelowThreshold ==
    (pc[0] = "show_menu" /\ ButtonStep /\ frame.d < HoldOf(ctx[0].c))
        => /\ pc'[0] = "ret"
           /\ UNCHANGED <<waiting, timer, window, backlight>>
           /\ TimersUntouched

\* C36 (at or above the threshold): show_menu sets the armed flag of its
\* controller and goes on to start the timer.
C36_SetsFlag ==
    (pc[0] = "show_menu" /\ ButtonStep /\ frame.d >= HoldOf(ctx[0].c))
        => /\ waiting'[ctx[0].c]
           /\ pc'[0] = "start_timer"

\* C36 (at or above the threshold): _start_confirmation_timer does not end
\* before the menu is requested, and when the menu is requested the call has
\* created one Timer, which is the controller's and has been started.
C36_StartsOneTimer ==
    (pc[0] \in StartTimerPcs /\ ButtonStep)
        => /\ pc'[0] \in StartTimerPcs \cup {"show"}
           /\ (pc'[0] = "show")
                => /\ timer'[ctx[0].c] = ctx[0].s
                   /\ pc'[ctx[0].s] # "created"
                   /\ Cardinality({t \in TimerIds : pc'[t] # "unborn"}) = nsess

\* C36 (at or above the threshold): the menu is requested.
C36_RequestsMenu ==
    (pc[0] = "show" /\ ButtonStep)
        => (window' = "control" \/ frame'.failed)

\* C36: show_menu with a hold time below the controller's threshold changes
\* nothing and makes no display call; with a hold time at or above it, it
\* sets the armed flag, starts exactly one timer and requests the menu.
C36_ShowMenuThreshold ==
    [][C36_BelowThreshold /\ C36_SetsFlag /\ C36_StartsOneTimer
         /\ C36_RequestsMenu]_vars

----------------------------------------------------------------------------
\* PiHole.update_pihole from its finally block on: the FTL recovery wait and
\* the return to the default view.  Time is in seconds.

\* Largest max_wait explored (the default of the code is 30).
MaxWait == 4
\* subprocess.run(..., timeout=2): no check lasts longer.
RunTimeout == 2
\* check_interval values explored (the default of the code is 2.0).
CheckIntervals == {1, 2}

\* What one FTL check can meet: dig answers (exit 0 with output), dig gives
\* no answer (non-zero exit or empty output), the check times out
\* (TimeoutExpired), subprocess.run raises another SubprocessError, or dig
\* cannot be spawned (OSError).
CheckResults == {"ok", "no_answer", "timeout", "subprocess_error", "oserror"}

\* except (subprocess.SubprocessError, subprocess.TimeoutExpired): pass
Swallowed(r) == r \in {"timeout", "subprocess_error"}

\* The finally block of update_pihole is entered: the display shows the
\* control window, nothing has been waited for.
NewFtl(max_wait, check_interval) ==
    [mode |-> "ftl", pc |-> "finally", max_wait |-> max_wait,
     check_interval |-> check_interval, now |-> 0, start_time |-> 0,
     ftl_recovered |-> FALSE, checks |-> 0, last |-> "none",
     waited |-> FALSE, switches |-> 0]

FtlInit ==
    /\ waiting = [c \in Ctrl |-> FALSE]
    /\ timer = [c \in Ctrl |-> 0]
    /\ pc = [th \in Threads |-> IF th = 0 THEN "idle" ELSE "unborn"]
    /\ ctx = [th \in Threads |-> NoCtx]
    /\ frame = NoFrame
    /\ cip = FALSE
    /\ window = "control"
    /\ backlight = [step |-> 0, level |-> 10, prev |-> brightness_levels[1]]
    /\ alive = {}
    /\ nsess = 0
    /\ sess = [c \in Ctrl |-> 0]
    /\ reverted = TRUE
    /\ prearm = [step |-> 0, level |-> brightness_levels[1]]
    /\ btn = NoBtn
    /\ buttons = NoButtons
    /\ mainthread = NoCleanup
    /\ conf = NoConf
    /\ proc = NoProc
    /\ light = NoLight
    /\ twin = NoTwin
    /\ \E max_wait \in 0 .. MaxWait : \E check_interval \in CheckIntervals :
         ftl = NewFtl(max_wait, check_interval)

FtlRest == <<waiting, timer, pc, ctx, frame, cip, window, backlight,
             alive, nsess, sess, reverted, prearm, btn, mainthread,
             buttons, proc, light, twin, conf>>

\* finally: time.sleep(FEEDBACK_DELAY); _wait_for_ftl_recovery() is entered
\* and reads start_time.
wait_enter ==
    /\ ftl.mode = "ftl"
    /\ ftl.pc = "finally"
    /\ ftl' = [ftl EXCEPT !.pc = "loop", !.start_time = ftl.now]
    /\ UNCHANGED FtlRest

\* while (time.time() - start_time) < max_wait
wait_loop ==
    /\ ftl.mode = "ftl"
    /\ ftl.pc = "loop"
    /\ ftl' = [ftl EXCEPT !.pc = IF ftl.now - ftl.start_time < ftl.max_wait
                                 THEN "check" ELSE "after"]
    /\ UNCHANGED FtlRest

\* One FTL check, subprocess.run of dig, which takes dt seconds: a success
\* breaks out of the loop, a failure or an exception the except clause takes
\* goes on to the sleep, any other exception leaves _wait_for_ftl_recovery
\* and, raised inside a finally block, update_pihole.
wait_check ==
    /\ ftl.mode = "ftl"
    /\ ftl.pc = "check"
    /\ \E r \in CheckResults : \E dt \in 0 .. RunTimeout :
         /\ (r = "timeout") => (dt = RunTimeout)
         /\ ftl' = [ftl EXCEPT
                !.now = @ + dt,
                !.checks = @ + 1,
                !.last = r,
                !.ftl_recovered = (r = "ok"),
                !.pc = IF r = "ok" THEN "after"
                       ELSE IF r = "no_answer" \/ Swallowed(r) THEN "sleep"
                       ELSE "raised"]
    /\ UNCHANGED FtlRest

\* time.sleep(check_interval)
wait_sleep ==
    /\ ftl.mode = "ftl"
    /\ ftl.pc = "sleep"
    /\ ftl' = [ftl EXCEPT !.now = @ + ftl.check_interval, !.pc = "loop"]
    /\ UNCHANGED FtlRest

\* After the loop: the warning when FTL did not recover, time.sleep(1), and
\* _wait_for_ftl_recovery returns.
wait_return ==
    /\ ftl.mode = "ftl"
    /\ ftl.pc = "after"
    /\ ftl' = [ftl EXCEPT !.now = @ + 1, !.waited = TRUE, !.pc = "padd"]
    /\ UNCHANGED FtlRest

\* self.display.switch_to_padd(), the last statement of the finally block;
\* it returns or raises DisplayError.
ftl_padd ==
    /\ ftl.mode = "ftl"
    /\ ftl.pc = "padd"
    /\ \E ok \in BOOLEAN :
         ftl' = [ftl EXCEPT !.switches = @ + 1,
                            !.pc = IF ok THEN "returned" ELSE "raised"]
    /\ UNCHANGED FtlRest

FtlNext ==
    \/ wait_enter
    \/ wait_loop
    \/ wait_check
    \/ wait_sleep
    \/ wait_return
    \/ ftl_padd

\* The thread that runs update_pihole keeps running: every sleep returns and
\* every check returns or raises within its timeout.
FtlSpec == FtlInit /\ [][FtlNext]_vars /\ WF_vars(FtlNext)

\* update_pihole has ended, by a return or by an exception.
FtlEnded == ftl.pc \in {"returned", "raised"}

\* C37 (order): switch_to_padd is called only after _wait_for_ftl_recovery
\* has returned.
C37_PaddAfterWait ==
    (ftl.mode = "ftl" /\ (ftl.switches > 0 \/ ftl.pc = "padd")) => ftl.waited

\* C37 (end of the wait): no check is made after one has succeeded, and a
\* wait that ends without a success has lasted at least max_wait.
C37_WaitEnds ==
    (ftl.mode = "ftl")
        => /\ ftl.ftl_recovered => ftl.pc \notin {"loop", "check", "sleep"}
           /\ (ftl.pc = "after" /\ ~ftl.ftl_recovered)
                => ftl.now - ftl.start_time >= ftl.max_wait

\* C37 (restore): when update_pihole has ended, the default view has been
\* requested, once.
C37_Restored == (ftl.mode = "ftl" /\ FtlEnded) => ftl.switches = 1

\* C37: in update_pihole the FTL recovery wait always ends (at the first
\* check that succeeds, or once max_wait has passed when every check fails,
\* times out or raises), the default view is requested only after it, and
\* it is requested whichever way the wait went.
C37_WaitThenRestore ==
    /\ [](C37_PaddAfterWait /\ C37_WaitEnds /\ C37_Restored)
    /\ <>(ftl.mode = "ftl" /\ FtlEnded)

----------------------------------------------------------------------------
\* utils/config.py: the Config class over the life of one process.

\* Constructions of Config followed (the program makes five: constants.py,
\* main(), DisplayManager, TMuxController, DisplayBacklight).
MaxCalls == 5
\* Contents config.yaml can have: 0 is a file that loads as nothing (empty,
\* or an empty mapping), 1..MaxVersions are different non-empty contents.
MaxVersions == 4

\* The class after its definition: _instance = None, _config = {} (value 0),
\* nothing read, logging not set up, and some file on disk.  ids holds the
\* object every construction so far has returned.
NewConf(file) ==
    [mode |-> "config", pc |-> "run", instance |-> 0, nobj |-> 0,
     config |-> 0, file |-> file, reads |-> 0, setups |-> 0, calls |-> 0,
     ids |-> {}]

ConfigInit ==
    /\ waiting = [c \in Ctrl |-> FALSE]
    /\ timer = [c \in Ctrl |-> 0]
    /\ pc = [th \in Threads |-> IF th = 0 THEN "idle" ELSE "unborn"]
    /\ ctx = [th \in Threads |-> NoCtx]
    /\ frame = NoFrame
    /\ cip = FALSE
    /\ window = "padd"
    /\ backlight = [step |-> 0, level |-> brightness_levels[1], prev |-> 10]
    /\ alive = {}
    /\ nsess = 0
    /\ sess = [c \in Ctrl |-> 0]
    /\ reverted = TRUE
    /\ prearm = [step |-> 0, level |-> brightness_levels[1]]
    /\ btn = NoBtn
    /\ buttons = NoButtons
    /\ mainthread = NoCleanup
    /\ proc = NoProc
    /\ light = NoLight
    /\ twin = NoTwin
    /\ ftl = NoFtl
    /\ \E file \in 0 .. MaxVersions : conf = NewConf(file)

ConfigRest == <<waiting, timer, pc, ctx, frame, cip, window, backlight,
                alive, nsess, sess, reverted, prearm, btn, mainthread,
                buttons, proc, light, twin, ftl>>

\* Mutant of NeedsLoad: __init__ loads on every construction.
NeedsLoad_Always(config) == TRUE

\* __init__: if not self._config
NeedsLoad(config) == config = 0

\* __new__: the object the call returns, _instance when there is one and a
\* new object otherwise.
new_instance(instance, nobj) == IF instance = 0 THEN nobj + 1 ELSE instance

\* Config(): __new__, then __init__ on the object it returned.  When the
\* guard of __init__ passes, _load_config reads the file (or raises
\* ConfigError when it cannot be read or parsed) and _setup_logging sets
\* logging up (or raises ConfigError: a key is missing, as in every content
\* that loaded as nothing, or the log directory cannot be made).  A
\* ConfigError leaves the import of constants.py or main(), and the process
\* ends.
Construct ==
    /\ conf.mode = "config"
    /\ conf.pc = "run"
    /\ conf.calls < MaxCalls
    /\ UNCHANGED ConfigRest
    /\ LET obj == new_instance(conf.instance, conf.nobj)
           c1 == [conf EXCEPT !.calls = @ + 1, !.instance = obj,
                              !.nobj = IF obj > @ THEN obj ELSE @]
       IN  IF NeedsLoad(conf.config)
           THEN \E readable, logging_ok \in BOOLEAN :
                  IF ~readable
                  THEN conf' = [c1 EXCEPT !.pc = "dead"]
                  ELSE LET c2 == [c1 EXCEPT !.reads = @ + 1, !.config = conf.file]
                       IN  IF conf.file = 0 \/ ~logging_ok
                           THEN conf' = [c2 EXCEPT !.pc = "dead"]
                           ELSE conf' = [c2 EXCEPT !.setups = @ + 1,
                                                   !.ids = @ \cup {obj}]
           ELSE conf' = [c1 EXCEPT !.ids = @ \cup {obj}]

\* config.yaml is edited while the process runs.
EditFile ==
    /\ conf.mode = "config"
    /\ conf.pc = "run"
    /\ \E file \in 0 .. MaxVersions :
         /\ file # conf.file
         /\ conf' = [conf EXCEPT !.file = file]
    /\ UNCHANGED ConfigRest

ConfigNext == Construct \/ EditFile

ConfigSpec == ConfigInit /\ [][ConfigNext]_vars

\* C38 (singleton): every construction of Config that returned, returned the
\* same object.
C38_SameInstance == (conf.mode = "config") => Cardinality(conf.ids) <= 1

\* C38 (once): the file has been read at most once and logging set up at
\* most once, however many constructions there were.
C38_LoadedOnce == (conf.mode = "config") => (conf.reads <= 1 /\ conf.setups <= 1)

\* C38 (stable): a construction after the configuration was loaded leaves
\* it as it was, whatever the file on disk holds by then.
C38_ConfigKept ==
    (conf.mode = "config" /\ conf.config # 0) => conf'.config = conf.config

\* C38: Config is a singleton that loads once: the same instance from every
\* construction, the file read and logging set up at most once, and the
\* loaded configuration unchanged by later constructions.
C38_SingletonLoadsOnce ==
    /\ [](C38_SameInstance /\ C38_LoadedOnce)
    /\ [][C38_ConfigKept]_vars

\* C38 witness: Config has been constructed MaxCalls times, it read the file
\* once, and the file on disk has changed since.
C38_Witness ==
    /\ conf.mode = "config"
    /\ conf.pc = "run"
    /\ conf.calls = MaxCalls
    /\ conf.reads = 1
    /\ conf.setups = 1
    /\ conf.file # conf.config
    /\ Cardinality(conf.ids) = 1

====
